---- MODULE Spec2Model ----
(***************************************************************************)
(* Model of the matrix reconciliation engine: SourceLinker (symlinks in a  *)
(* workspace), RepositoryCloner (shared clone cache), the workspace /      *)
(* MATRIX.md manager and MatrixReconciler.reconcile.                       *)
(*                                                                         *)
(* Strings that the code inspects character by character (source names,   *)
(* ids, urls) are sequences of one-character strings.  A filesystem path   *)
(* is a record [root, name]; the disk maps every path to what is there.    *)
(***************************************************************************)
EXTENDS Integers, Sequences, FiniteSets, TLC

VARIABLES
    wsKind,     \* what is at matrix.workspace_path: "missing", "dir", "file"
    manifest,   \* MATRIX.md inside the workspace: [present, text]
    entries,    \* workspace entries other than MATRIX.md: link name -> entry
    disk,       \* source locations and the shared clone root: path -> kind
    matrix,     \* the Matrix record handed to reconcile
    sources,    \* the resolved Source objects handed to reconcile / link
    urlHash,    \* hash(url) of this process (randomised per process)
    report,     \* ReconcileReport of the last reconcile call
    outcome,    \* how the last operation ended
    calls,      \* collaborator invocations made by the last operation
    hist,       \* what the last operation was, and the state it started in
    drift,      \* number of out-of-band filesystem changes so far
    db,         \* the database: matrices, sources and matrix_sources tables
    spaces      \* the workspace folders under ~/.matrix/matrices, by path

vars == <<wsKind, manifest, entries, disk, matrix, sources, urlHash,
          report, outcome, calls, hist, drift, db, spaces>>

----------------------------------------------------------------------------
(* Bounds.                                                                 *)

MaxDrift == 1       \* out-of-band filesystem changes per behaviour

----------------------------------------------------------------------------
(* Strings as character sequences.                                         *)

NoUrl == <<>>       \* url = None (or ""): falsy in `source.url`

\* str.replace(old, new) for a one-character `old`
Replace(s, old, new) == [i \in 1..Len(s) |-> IF s[i] = old THEN new ELSE s[i]]

RECURSIVE LStrip(_)
LStrip(s) == IF s # <<>> /\ Head(s) = " " THEN LStrip(Tail(s)) ELSE s

RECURSIVE RStrip(_)
RStrip(s) ==
    IF s # <<>> /\ s[Len(s)] = " " THEN RStrip(SubSeq(s, 1, Len(s) - 1)) ELSE s

\* str.strip()
Strip(s) == RStrip(LStrip(s))

\* SourceLinker._sanitize_link_name
SanitizeLinkName(name) ==
    Strip(Replace(Replace(Replace(name, "/", "_"), "\\", "_"), ":", "_"))

\* variant: the whole id is appended instead of its first 8 characters
WholeId(id) == id

\* source.id[:8]
First8(id) == SubSeq(id, 1, IF Len(id) < 8 THEN Len(id) ELSE 8)

\* f"{link_name}-{source.id[:8]}"
SuffixedName(base, id) == base \o <<"-">> \o First8(id)

----------------------------------------------------------------------------
(* The Source records of the persistence layer.                            *)

IdA == <<"a", "b", "c", "1", "2", "3", "4", "5", "-", "x">>
IdB == <<"b", "0", "0", "0", "0", "0", "0", "2", "-", "x">>
IdGone == <<"e", "0", "0", "0", "0", "0", "0", "5", "-", "x">>
IdGone2 == <<"f", "0", "0", "0", "0", "0", "0", "6", "-", "x">>

Url1 == <<"h", ":", "/", "r", ".", "g", "i", "t">>

RepoPath(n) == [root |-> "repositories", name |-> n]

PathA == [root |-> "home", name |-> <<"a">>]
PathAlias == [root |-> "home", name |-> <<"l">>]      \* a symlink in the user's home to PathA

NameB == <<"r", "_", "p">>

SourceA == [id |-> IdA, name |-> <<"r", "/", "p">>, path |-> PathA, url |-> NoUrl,
            source_type |-> "local"]
\* cloned while repositories/r_p was taken by a directory that is no clone, so
\* the cloner put it under the disambiguated name
SourceB == [id |-> IdB, name |-> NameB,
            path |-> RepoPath(NameB \o <<"-", "4", "2", "4", "2">>), url |-> Url1,
            source_type |-> "remote"]
SourceC == [id |-> <<"c", "0", "0", "0", "0", "0", "0", "3", "-", "x">>, name |-> <<" ", "q">>,
            path |-> RepoPath(<<" ", "q">>), url |-> NoUrl,
            source_type |-> "remote"]
SourceD == [id |-> <<"d", "0", "0", "0", "0", "0", "0", "4", "-", "x">>, name |-> <<"d", ":">>,
            path |-> PathAlias, url |-> <<"g", "@", "h", ":", "u", "/", "d">>,
            source_type |-> "local"]

Records == {SourceA, SourceB, SourceC, SourceD}

----------------------------------------------------------------------------
(* The filesystem.                                                         *)

NoPath == [root |-> "", name |-> <<>>]

HashMod == 10000
HashVals == {7, 4242}       \* values hash(url) % 10000 takes in the model

Digit(d) == <<"0", "1", "2", "3", "4", "5", "6", "7", "8", "9">>[d + 1]

\* f"{clone_name}-{hash(url) % 10000:04d}"
DisambiguatedName(name, h) ==
    LET n == h % HashMod
    IN  name \o <<"-", Digit((n \div 1000) % 10), Digit((n \div 100) % 10),
                 Digit((n \div 10) % 10), Digit(n % 10)>>

AllPaths ==
    {PathA, PathAlias}
    \cup {RepoPath(r.name) : r \in Records}
    \cup {RepoPath(DisambiguatedName(r.name, h)) : r \in Records, h \in HashVals}

\* a disk location holds nothing ("absent"), a plain directory ("dir"), a
\* directory with a .git marker ("git"), or a symbolic link to PathA ("alias")

\* Path.exists(): follows symbolic links
PathExists(d, p) ==
    IF d[p] = "alias" THEN d[PathA] # "absent" ELSE d[p] # "absent"

\* Path.resolve() (strict=False): follows symbolic links, and a location that
\* does not exist resolves to itself without an error
Resolve(d, p) == IF d[p] = "alias" THEN PathA ELSE p

LinkNames ==
    {SanitizeLinkName(r.name) : r \in Records}
    \cup {SuffixedName(SanitizeLinkName(r.name), r.id) : r \in Records}

NoEntry == [kind |-> "none", target |-> NoPath]
DirEntry == [kind |-> "dir", target |-> NoPath]
SymlinkTo(p) == [kind |-> "symlink", target |-> p]

\* the filesystem as one value: workspace, manifest, workspace entries, disk
FsState(w, m, e, d) == [ws |-> w, md |-> m, ent |-> e, disk |-> d]

\* link_path.is_symlink(): false when the workspace is not a directory
IsSymlink(st, n) == st.ws = "dir" /\ st.ent[n].kind = "symlink"

\* link_path.exists() or link_path.is_symlink()
Occupied(st, n) == st.ws = "dir" /\ st.ent[n].kind # "none"

\* link_path.resolve() of a symlink entry
ResolveLink(st, n) == Resolve(st.disk, st.ent[n].target)

----------------------------------------------------------------------------
(* SourceLinker.                                                           *)

\* the two candidate names of a Source with the given name and id
CandidateNames(name, id) ==
    <<SanitizeLinkName(name), SuffixedName(SanitizeLinkName(name), id)>>

\* CandidateNames, tabulated for the records of the model
CandidateTable == [r \in {<<x.name, x.id>> : x \in Records} |-> CandidateNames(r[1], r[2])]

\* the two candidate names of a Source
Candidates(src) == CandidateTable[<<src.name, src.id>>]

\* variant: only the base name is examined
is_linked_base_only(st, src) ==
    IF st.ws = "missing" THEN FALSE
    ELSE /\ IsSymlink(st, Candidates(src)[1])
         /\ ResolveLink(st, Candidates(src)[1]) = Resolve(st.disk, src.path)

\* SourceLinker.is_linked
is_linked(st, src) ==
    IF st.ws = "missing" THEN FALSE
    ELSE \E i \in 1..2 :
            /\ IsSymlink(st, Candidates(src)[i])
            /\ ResolveLink(st, Candidates(src)[i]) = Resolve(st.disk, src.path)

\* result of a linker call: new filesystem, exception raised, returned name
LinkResult(st, exc, ret, msg) == [st |-> st, exc |-> exc, ret |-> ret, msg |-> msg]

\* workspace.mkdir(parents=True, exist_ok=True)
MkdirWorkspace(st, mkdirOk) ==
    CASE st.ws = "dir" -> [ok |-> TRUE, st |-> st]
      [] st.ws = "file" -> [ok |-> FALSE, st |-> st]
      [] OTHER -> IF mkdirOk THEN [ok |-> TRUE, st |-> [st EXCEPT !.ws = "dir"]]
                  ELSE [ok |-> FALSE, st |-> st]

\* variant: the new symlink takes the place of whatever holds the name
SymlinkStepReplaces(st, src, name, symlinkOk) ==
    IF ~symlinkOk
    THEN LinkResult(st, "SymlinkError", <<>>, "Failed to create symlink")
    ELSE LinkResult([st EXCEPT !.ent[name] = SymlinkTo(src.path)], "none", name, "")

\* link_path.symlink_to(source_path), wrapped in try/except OSError
SymlinkStep(st, src, name, symlinkOk) ==
    IF Occupied(st, name) \/ ~symlinkOk
    THEN LinkResult(st, "SymlinkError", <<>>, "Failed to create symlink")
    ELSE LinkResult([st EXCEPT !.ent[name] = SymlinkTo(src.path)], "none", name, "")

\* the collision rule: which name the new link gets
CollisionName(st, src) ==
    IF Occupied(st, Candidates(src)[1]) THEN Candidates(src)[2]
    ELSE Candidates(src)[1]

\* variant: any symlink under the base name is taken for the Source's own
LinkInWorkspaceAnyLink(mk, src, base, symlinkOk) ==
    IF ~mk.ok THEN LinkResult(mk.st, "OSError", <<>>, "mkdir failed")
    ELSE IF IsSymlink(mk.st, base) THEN LinkResult(mk.st, "none", base, "")
         ELSE SymlinkStep(mk.st, src, CollisionName(mk.st, src), symlinkOk)

\* link_source_to_matrix once workspace.mkdir has run
LinkInWorkspace(mk, src, base, symlinkOk) ==
    IF ~mk.ok THEN LinkResult(mk.st, "OSError", <<>>, "mkdir failed")
    ELSE IF /\ IsSymlink(mk.st, base)
            /\ ResolveLink(mk.st, base) = Resolve(mk.st.disk, src.path)
         THEN LinkResult(mk.st, "none", base, "")
         ELSE SymlinkStep(mk.st, src, CollisionName(mk.st, src), symlinkOk)

\* SourceLinker.link_source_to_matrix
link_source_to_matrix(st, src, mkdirOk, symlinkOk) ==
    IF ~PathExists(st.disk, src.path)
    THEN LinkResult(st, "SymlinkError", <<>>, "Source path does not exist")
    ELSE LinkInWorkspace(MkdirWorkspace(st, mkdirOk), src, Candidates(src)[1], symlinkOk)

\* which entry unlink looks at
UnlinkTarget(st, src) ==
    IF IsSymlink(st, Candidates(src)[1]) THEN Candidates(src)[1]
    ELSE Candidates(src)[2]

\* variant: a Source without a link is an error
NothingToUnlinkRaises(st) == LinkResult(st, "SymlinkError", <<>>, "Failed to remove symlink")

\* neither candidate is a symlink: the method falls off its end
NothingToUnlink(st) == LinkResult(st, "none", <<>>, "")

\* variant: the entry is removed whatever it is
unlink_whatever_is_there(st, src, unlinkOk) ==
    LET name == UnlinkTarget(st, src)
    IN  IF ~Occupied(st, name) THEN NothingToUnlink(st)
        ELSE LinkResult([st EXCEPT !.ent[name] = NoEntry], "none", name, "")

\* SourceLinker.unlink_source_from_matrix
unlink_source_from_matrix(st, src, unlinkOk) ==
    LET name == UnlinkTarget(st, src)
    IN  IF ~IsSymlink(st, name) THEN NothingToUnlink(st)
        ELSE IF ~unlinkOk
             THEN LinkResult(st, "SymlinkError", <<>>, "Failed to remove symlink")
             ELSE LinkResult([st EXCEPT !.ent[name] = NoEntry], "none", name, "")

----------------------------------------------------------------------------
(* RepositoryCloner.                                                       *)

\* index of the last "/" or ":" of s, 0 when there is none
RECURSIVE LastSep(_, _)
LastSep(s, i) == IF i = 0 THEN 0 ELSE IF s[i] \in {"/", ":"} THEN i ELSE LastSep(s, i - 1)

\* RepositoryCloner.extract_repo_name: re.search(r"[/:]([^/:]+?)(?:\.git)?/?$")
extract_repo_name(url) ==
    LET u == IF url # <<>> /\ url[Len(url)] = "/" THEN SubSeq(url, 1, Len(url) - 1)
             ELSE url
        k == LastSep(u, Len(u))
        y == SubSeq(u, k + 1, Len(u))
    IN  IF k = 0 \/ y = <<>> THEN <<"r", "e", "p", "o", "s", "i", "t", "o", "r", "y">>
        ELSE IF Len(y) > 4 /\ SubSeq(y, Len(y) - 3, Len(y)) = <<".", "g", "i", "t">>
             THEN SubSeq(y, 1, Len(y) - 4) ELSE y

CloneResult(d, exc, ret, ran, msg) ==
    [disk |-> d, exc |-> exc, ret |-> ret, ran |-> ran, msg |-> msg]

\* whether clone_repository evaluates hash(url)
HashesUrl(d, url, name, gitOk) ==
    gitOk /\ d[RepoPath(IF name # <<>> THEN name ELSE extract_repo_name(url))] = "dir"

\* subprocess.run(["git", "clone", url, clone_path], timeout=300, check=True):
\* git refuses a target that exists (a "dir" or "git" location is not empty)
GitClone(d, path, cloneOutcome) ==
    IF cloneOutcome = "timeout"
    THEN CloneResult(d, "CloneError", NoPath, TRUE, "Git clone timed out after 5 minutes")
    ELSE IF cloneOutcome = "failed" \/ d[path] # "absent"
         THEN CloneResult(d, "CloneError", NoPath, TRUE, "Git clone failed")
         ELSE CloneResult([d EXCEPT ![path] = "git"], "none", path, TRUE, "")

\* the directory the clone goes to once the cache check has missed
CloneTarget(d, url, clone_name, h) ==
    IF d[RepoPath(clone_name)] # "absent"
    THEN RepoPath(DisambiguatedName(clone_name, h[url]))
    ELSE RepoPath(clone_name)

\* variant: the cache is consulted before the git executable is looked for
clone_repository_cache_first(d, url, name, h, gitOk, cloneOutcome) ==
    LET clone_name == IF name # <<>> THEN name ELSE extract_repo_name(url)
    IN  IF d[RepoPath(clone_name)] = "git"
        THEN CloneResult(d, "none", RepoPath(clone_name), FALSE, "")
        ELSE IF ~gitOk
             THEN CloneResult(d, "CloneError", NoPath, FALSE,
                              "git command not found. Please install git.")
             ELSE GitClone(d, CloneTarget(d, url, clone_name, h), cloneOutcome)

\* RepositoryCloner.clone_repository
clone_repository(d, url, name, h, gitOk, cloneOutcome) ==
    IF ~gitOk
    THEN CloneResult(d, "CloneError", NoPath, FALSE, "git command not found. Please install git.")
    ELSE LET clone_name == IF name # <<>> THEN name ELSE extract_repo_name(url)
         IN  IF d[RepoPath(clone_name)] = "git"
             THEN CloneResult(d, "none", RepoPath(clone_name), FALSE, "")
             ELSE GitClone(d, CloneTarget(d, url, clone_name, h), cloneOutcome)

----------------------------------------------------------------------------
(* Workspace and MATRIX.md (space.py).                                     *)

NoManifest == [present |-> FALSE, text |-> [title |-> <<>>, sections |-> <<>>]]

\* generate_matrix_md_content
generate_matrix_md_content(m, srcs) ==
    [title |-> m.name,
     sections |-> [i \in 1..Len(srcs) |-> [name |-> srcs[i].name, path |-> srcs[i].path,
                                            url |-> srcs[i].url, id |-> srcs[i].id]]]

SpaceResult(st, exc) == [st |-> st, exc |-> exc]

\* md_path.write_text(md_content)
WriteManifest(st, m, srcs, writeOk) ==
    IF st.ws # "dir" \/ ~writeOk THEN SpaceResult(st, "OSError")
    ELSE SpaceResult([st EXCEPT !.md = [present |-> TRUE,
                                        text |-> generate_matrix_md_content(m, srcs)]],
                     "none")

\* variant: only the folder is made, MATRIX.md is not written
create_matrix_space_folder_only(st, m, srcs, mkdirOk, writeOk) ==
    LET mk == MkdirWorkspace(st, mkdirOk)
    IN  IF ~mk.ok THEN SpaceResult(mk.st, "OSError") ELSE SpaceResult(mk.st, "none")

\* create_matrix_space
create_matrix_space(st, m, srcs, mkdirOk, writeOk) ==
    LET mk == MkdirWorkspace(st, mkdirOk)
    IN  IF ~mk.ok THEN SpaceResult(mk.st, "OSError")
        ELSE WriteManifest(mk.st, m, srcs, writeOk)

\* update_matrix_md
update_matrix_md(st, m, srcs, mkdirOk, writeOk) ==
    IF st.ws = "missing" THEN create_matrix_space(st, m, srcs, mkdirOk, writeOk)
    ELSE WriteManifest(st, m, srcs, writeOk)

----------------------------------------------------------------------------
(* MatrixReconciler (reconciler.py).                                       *)

\* SourceReconcileResult; `action` is the text as a sequence of its parts
SourceReconcileResult(src, status, action) ==
    [source_id |-> src.id, source_name |-> src.name, status |-> status, action |-> action]

EmptyReport ==
    [workspace_recreated |-> FALSE, matrix_md_recreated |-> FALSE,
     sources_reconciled |-> <<>>, orphaned_source_ids |-> <<>>]

\* variant: an error entry counts as a repair as well
has_repairs_or_errors(r) ==
    IF r.workspace_recreated \/ r.matrix_md_recreated THEN TRUE
    ELSE \E i \in 1..Len(r.sources_reconciled) :
            r.sources_reconciled[i].status \in {"repaired", "error"}

\* ReconcileReport.has_repairs
has_repairs(r) ==
    IF r.workspace_recreated \/ r.matrix_md_recreated THEN TRUE
    ELSE \E i \in 1..Len(r.sources_reconciled) : r.sources_reconciled[i].status = "repaired"

\* ReconcileReport.to_json
to_json(r) ==
    [workspace_recreated |-> r.workspace_recreated,
     matrix_md_recreated |-> r.matrix_md_recreated,
     sources_reconciled |-> [i \in 1..Len(r.sources_reconciled) |->
                                [source_id |-> r.sources_reconciled[i].source_id,
                                 source_name |-> r.sources_reconciled[i].source_name,
                                 status |-> r.sources_reconciled[i].status,
                                 action |-> r.sources_reconciled[i].action]],
     orphaned_source_ids |-> r.orphaned_source_ids,
     has_repairs |-> has_repairs(r)]

\* what the environment does during one call: whether mkdir, write_text and
\* the git executable work, how an external clone ends, and the Sources whose
\* symlink_to is refused by the operating system
Envs(st, srcs) ==
    LET needsClone == \E i \in 1..Len(srcs) :
                         /\ srcs[i].source_type = "remote" /\ srcs[i].url # NoUrl
                         /\ ~PathExists(st.disk, srcs[i].path)
    IN  [mkdirOk : IF st.ws = "missing" THEN BOOLEAN ELSE {TRUE},
         writeOk : IF st.ws = "missing" \/ ~st.md.present THEN BOOLEAN ELSE {TRUE},
         gitOk : IF needsClone THEN BOOLEAN ELSE {TRUE},
         clone : IF needsClone THEN {"ok", "failed", "timeout"} ELSE {"ok"},
         linkFail : SUBSET {srcs[i].id : i \in {j \in 1..Len(srcs) : ~is_linked(st, srcs[j])}}]

\* outcome of reconciling one Source: filesystem, the (possibly mutated)
\* Source object, its report entry, whether an exception escaped, and which
\* collaborators were invoked
SourceOutcome(st, src, res, raised, link, clone, git) ==
    [st |-> st, src |-> src, result |-> res, raised |-> raised,
     link |-> link, clone |-> clone, git |-> git]

\* variant: a SymlinkError is passed over and the Source reported repaired
LocalLinkOutcomeHidesError(src, lr) ==
    CASE lr.exc \in {"none", "SymlinkError"} ->
            SourceOutcome(lr.st, src, SourceReconcileResult(src, "repaired", <<"symlink recreated">>),
                          FALSE, TRUE, FALSE, FALSE)
      [] OTHER ->
            SourceOutcome(lr.st, src, SourceReconcileResult(src, "error", <<lr.msg>>),
                          TRUE, TRUE, FALSE, FALSE)

\* the except clauses of _reconcile_local_source: only SymlinkError is caught
LocalLinkOutcome(src, lr) ==
    CASE lr.exc = "none" ->
            SourceOutcome(lr.st, src, SourceReconcileResult(src, "repaired", <<"symlink recreated">>),
                          FALSE, TRUE, FALSE, FALSE)
      [] lr.exc = "SymlinkError" ->
            SourceOutcome(lr.st, src, SourceReconcileResult(src, "error", <<lr.msg>>),
                          FALSE, TRUE, FALSE, FALSE)
      [] OTHER ->
            SourceOutcome(lr.st, src, SourceReconcileResult(src, "error", <<lr.msg>>),
                          TRUE, TRUE, FALSE, FALSE)

\* variant: whatever holds the base name is cleared away before linking
reconcile_local_source_relinks(st, src, env) ==
    IF ~PathExists(st.disk, src.path)
    THEN SourceOutcome(st, src, SourceReconcileResult(src, "skipped", <<"local path missing">>),
                       FALSE, FALSE, FALSE, FALSE)
    ELSE LocalLinkOutcome(src,
            link_source_to_matrix([st EXCEPT !.ent[Candidates(src)[1]] = NoEntry],
                                  src, env.mkdirOk, src.id \notin env.linkFail))

\* MatrixReconciler._reconcile_local_source
reconcile_local_source(st, src, env) ==
    IF ~PathExists(st.disk, src.path)
    THEN SourceOutcome(st, src, SourceReconcileResult(src, "skipped", <<"local path missing">>),
                       FALSE, FALSE, FALSE, FALSE)
    ELSE LocalLinkOutcome(src,
            link_source_to_matrix(st, src, env.mkdirOk, src.id \notin env.linkFail))

\* recloned = not Path(source.path).samefile(source_path)
\*            if source_path.exists() else True
Recloned(d, newPath, oldPath) ==
    IF PathExists(d, oldPath) THEN Resolve(d, newPath) # Resolve(d, oldPath) ELSE TRUE

\* the try/except around the link call of _reconcile_remote_source
RemoteLinkResult(lr, src, oldPath, cloned, gitRan) ==
        IF lr.exc = "none"
        THEN SourceOutcome(lr.st, src,
                SourceReconcileResult(src, "repaired",
                    IF Recloned(lr.st.disk, src.path, oldPath)
                    THEN <<"recloned and symlink created">> ELSE <<"symlink recreated">>),
                FALSE, TRUE, cloned, gitRan)
        ELSE SourceOutcome(lr.st, src, SourceReconcileResult(src, "error", <<lr.msg>>),
                           FALSE, TRUE, cloned, gitRan)

\* the "now create the symlink" part of _reconcile_remote_source
RemoteLinkOutcome(st, src, oldPath, env, cloned, gitRan) ==
    RemoteLinkResult(link_source_to_matrix(st, src, env.mkdirOk, src.id \notin env.linkFail),
                     src, oldPath, cloned, gitRan)

\* variant: a failed clone is passed over and the link is made all the same
AfterRecloneLinksAnyway(st, src, env, cr) ==
    IF cr.exc # "none"
    THEN RemoteLinkOutcome(st, src, src.path, env, TRUE, cr.ran)
    ELSE RemoteLinkOutcome([st EXCEPT !.disk = cr.disk],
                           [src EXCEPT !.path = cr.ret], src.path, env, TRUE, cr.ran)

\* the try/except around the clone call of _reconcile_remote_source
AfterReclone(st, src, env, cr) ==
    IF cr.exc # "none"
    THEN SourceOutcome(st, src,
            SourceReconcileResult(src, "error", <<"reclone failed: ", cr.msg>>),
            FALSE, FALSE, TRUE, cr.ran)
    ELSE RemoteLinkOutcome([st EXCEPT !.disk = cr.disk],
                           [src EXCEPT !.path = cr.ret], src.path, env, TRUE, cr.ran)

\* MatrixReconciler._reconcile_remote_source
reconcile_remote_source(st, src, h, env) ==
    IF ~PathExists(st.disk, src.path) /\ src.url # NoUrl
    THEN AfterReclone(st, src, env,
            clone_repository(st.disk, src.url, src.name, h, env.gitOk, env.clone))
    ELSE IF ~PathExists(st.disk, src.path)
         THEN SourceOutcome(st, src,
                 SourceReconcileResult(src, "skipped", <<"remote clone missing and no URL">>),
                 FALSE, FALSE, FALSE, FALSE)
         ELSE RemoteLinkOutcome(st, src, src.path, env, FALSE, FALSE)

\* MatrixReconciler._reconcile_source
reconcile_source(st, src, h, env) ==
    IF is_linked(st, src)
    THEN SourceOutcome(st, src, SourceReconcileResult(src, "ok", <<>>),
                       FALSE, FALSE, FALSE, FALSE)
    ELSE IF src.source_type = "local" THEN reconcile_local_source(st, src, env)
         ELSE reconcile_remote_source(st, src, h, env)

\* variant: the orphans are collected in reverse order
RECURSIVE OrphanLoopReversed(_, _, _)
OrphanLoopReversed(source_ids, resolved_ids, i) ==
    IF i > Len(source_ids) THEN <<>>
    ELSE OrphanLoopReversed(source_ids, resolved_ids, i + 1)
         \o (IF source_ids[i] \notin resolved_ids THEN <<source_ids[i]>> ELSE <<>>)

\* step 3 of reconcile: the loop over matrix.source_ids
RECURSIVE OrphanLoop(_, _, _)
OrphanLoop(source_ids, resolved_ids, i) ==
    IF i > Len(source_ids) THEN <<>>
    ELSE (IF source_ids[i] \notin resolved_ids THEN <<source_ids[i]>> ELSE <<>>)
         \o OrphanLoop(source_ids, resolved_ids, i + 1)

orphaned_source_ids(m, srcs) ==
    OrphanLoop(m.source_ids, {srcs[i].id : i \in 1..Len(srcs)}, 1)

\* collaborator invocations of one call: Sources given to the linker, Sources
\* given to the cloner, Sources for which the external `git clone` ran, urls
\* whose hash() was taken, and calls into space.py
NoCalls == [link |-> <<>>, clone |-> <<>>, git |-> <<>>, hashed |-> {}, space |-> 0]

\* the running state of one reconcile call
RunState(st, srcs, rep, out, c) ==
    [st |-> st, srcs |-> srcs, report |-> rep, outcome |-> out, calls |-> c]

\* the collaborator invocations of a call, extended by those of one Source
RecordCalls(run, i, o, env) ==
    [run.calls EXCEPT
        !.link = IF o.link THEN Append(@, o.src.id) ELSE @,
        !.clone = IF o.clone THEN Append(@, o.src.id) ELSE @,
        !.git = IF o.git THEN Append(@, o.src.id) ELSE @,
        !.hashed = IF o.clone /\ HashesUrl(run.st.disk, run.srcs[i].url,
                                            run.srcs[i].name, env.gitOk)
                   THEN @ \cup {run.srcs[i].url} ELSE @]

\* report.sources_reconciled.append(result), unless the exception escaped
AppendResult(run, i, o, c) ==
    IF o.raised
    THEN RunState(o.st, [run.srcs EXCEPT ![i] = o.src], run.report, "raised", c)
    ELSE RunState(o.st, [run.srcs EXCEPT ![i] = o.src],
                  [run.report EXCEPT !.sources_reconciled = Append(@, o.result)],
                  run.outcome, c)

\* the outcome of one Source folded into the running state
FoldOutcome(run, i, o, env) == AppendResult(run, i, o, RecordCalls(run, i, o, env))

\* variant: a Source whose repair failed is tried a second time
SourceIterationRetries(run, i, h, env) ==
    LET first == reconcile_source(run.st, run.srcs[i], h, env)
    IN  IF first.result.status # "error" \/ first.raised
        THEN FoldOutcome(run, i, first, env)
        ELSE FoldOutcome([run EXCEPT !.calls = RecordCalls(run, i, first, env)], i,
                         reconcile_source(first.st, first.src, h, env), env)

\* one iteration of `for source in sources`
SourceIteration(run, i, h, env) ==
    FoldOutcome(run, i, reconcile_source(run.st, run.srcs[i], h, env), env)

\* step 4 of reconcile: each Source in input order; an escaping exception
\* ends the loop
RECURSIVE SourceLoop(_, _, _, _)
SourceLoop(run, i, h, env) ==
    IF i > Len(run.srcs) \/ run.outcome = "raised" THEN run
    ELSE SourceLoop(SourceIteration(run, i, h, env), i + 1, h, env)

\* variant: the except clause logs the failure but does not return
WorkspaceRecreatedNoReturn(cs, srcs) ==
    IF cs.exc # "none"
    THEN RunState(cs.st, srcs, EmptyReport, "returned", [NoCalls EXCEPT !.space = 1])
    ELSE RunState(cs.st, srcs,
                  [EmptyReport EXCEPT !.workspace_recreated = TRUE,
                                      !.matrix_md_recreated = TRUE],
                  "returned", [NoCalls EXCEPT !.space = 1])

\* step 1 of reconcile: the try/except around create_matrix_space
WorkspaceRecreated(cs, srcs) ==
    IF cs.exc # "none"
    THEN RunState(cs.st, srcs, EmptyReport, "aborted", [NoCalls EXCEPT !.space = 1])
    ELSE RunState(cs.st, srcs,
                  [EmptyReport EXCEPT !.workspace_recreated = TRUE,
                                      !.matrix_md_recreated = TRUE],
                  "returned", [NoCalls EXCEPT !.space = 1])

\* variant: a failed manifest write ends the call like a failed workspace one
ManifestRecreatedOrAbort(us, srcs) ==
    RunState(us.st, srcs, [EmptyReport EXCEPT !.matrix_md_recreated = (us.exc = "none")],
             IF us.exc = "none" THEN "returned" ELSE "aborted", [NoCalls EXCEPT !.space = 1])

\* step 2 of reconcile: the try/except around update_matrix_md
ManifestRecreated(us, srcs) ==
    RunState(us.st, srcs, [EmptyReport EXCEPT !.matrix_md_recreated = (us.exc = "none")],
             "returned", [NoCalls EXCEPT !.space = 1])

\* variant: MATRIX.md is rewritten on every call
WorkspaceStepAlwaysWrites(st, m, srcs, env) ==
    IF st.ws = "missing"
    THEN WorkspaceRecreated(create_matrix_space(st, m, srcs, env.mkdirOk, env.writeOk), srcs)
    ELSE ManifestRecreated(update_matrix_md(st, m, srcs, env.mkdirOk, env.writeOk), srcs)

\* steps 1 and 2 of reconcile: workspace folder, then MATRIX.md
WorkspaceStep(st, m, srcs, env) ==
    IF st.ws = "missing"
    THEN WorkspaceRecreated(create_matrix_space(st, m, srcs, env.mkdirOk, env.writeOk), srcs)
    ELSE IF ~st.md.present
         THEN ManifestRecreated(update_matrix_md(st, m, srcs, env.mkdirOk, env.writeOk), srcs)
         ELSE RunState(st, srcs, EmptyReport, "returned", NoCalls)

\* variant: the call returns once the workspace has been recreated
AfterWorkspaceStepReturnsEarly(w, m, srcs, h, env) ==
    IF w.outcome = "aborted" \/ w.report.workspace_recreated THEN w
    ELSE SourceLoop([w EXCEPT !.report.orphaned_source_ids = orphaned_source_ids(m, srcs)],
                    1, h, env)

\* steps 3 and 4 of reconcile, unless step 1 returned early
AfterWorkspaceStep(w, m, srcs, h, env) ==
    IF w.outcome = "aborted" THEN w
    ELSE SourceLoop([w EXCEPT !.report.orphaned_source_ids = orphaned_source_ids(m, srcs)],
                    1, h, env)

\* MatrixReconciler.reconcile
reconcile(st, m, srcs, h, env) ==
    AfterWorkspaceStep(WorkspaceStep(st, m, srcs, env), m, srcs, h, env)

----------------------------------------------------------------------------
(* Workspace paths (config/paths.py) and the database tables.              *)

\* str.lower() on the capital letters that occur in matrix names
Lower(s) == [i \in 1..Len(s) |-> CASE s[i] = "M" -> "m" [] s[i] = "N" -> "n" [] OTHER -> s[i]]

\* re.sub(r"[\s_-]+", "-", text): every run of blanks, "_" and "-" becomes "-"
RECURSIVE CollapseRuns(_, _)
CollapseRuns(s, inRun) ==
    IF s = <<>> THEN <<>>
    ELSE IF Head(s) \in {" ", "_", "-"}
         THEN (IF inRun THEN <<>> ELSE <<"-">>) \o CollapseRuns(Tail(s), TRUE)
         ELSE <<Head(s)>> \o CollapseRuns(Tail(s), FALSE)

\* str.strip("-")
RECURSIVE StripHyphens(_)
StripHyphens(s) ==
    IF s # <<>> /\ Head(s) = "-" THEN StripHyphens(Tail(s))
    ELSE IF s # <<>> /\ s[Len(s)] = "-" THEN StripHyphens(SubSeq(s, 1, Len(s) - 1))
         ELSE s

\* config.paths.slugify
slugify(text) ==
    LET \* re.sub(r"[^\w\s-]", "", text) keeps word characters, blanks and "-"
        Kept(c) == c \in {"a", "b", "c", "d", "e", "f", "g", "h", "i", "j", "k", "l", "m",
                          "n", "o", "p", "q", "r", "s", "t", "u", "v", "w", "x", "y", "z",
                          "0", "1", "2", "3", "4", "5", "6", "7", "8", "9", "_", " ", "-"}
    IN  StripHyphens(CollapseRuns(SelectSeq(Strip(Lower(text)), Kept), FALSE))

\* matrix_id.split("-")[0]
RECURSIVE FirstSegment(_)
FirstSegment(id) ==
    IF id = <<>> \/ Head(id) = "-" THEN <<>> ELSE <<Head(id)>> \o FirstSegment(Tail(id))

\* config.paths.generate_matrix_folder_name
generate_matrix_folder_name(matrix_name, matrix_id) ==
    (IF slugify(matrix_name) = <<>> THEN <<"m", "a", "t", "r", "i", "x">>
     ELSE slugify(matrix_name))
    \o <<"-">> \o FirstSegment(matrix_id)

\* config.paths.get_matrix_space_path
get_matrix_space_path(matrix_name, matrix_id) ==
    [root |-> "matrices", name |-> generate_matrix_folder_name(matrix_name, matrix_id)]

\* the uuid4 values Matrix.create can draw
MatrixIds == {<<"m", "1", "-", "x">>, <<"m", "2", "-", "x">>}

\* the names the frontend sends: plain, with characters the slug drops, blank
MatrixNames == {<<"M">>, <<"N", " ", "!", "x">>, <<" ">>}

\* the folders Matrix.create can name
SpacePaths ==
    {get_matrix_space_path(Strip(n), i) : n \in MatrixNames \ {<<" ">>}, i \in MatrixIds}

\* the Source rows of the database
StoredSources == {SourceA}
StoredIds == {r.id : r \in StoredSources}

NoRow == [id |-> <<>>]

\* an empty database, and no workspace folder at all
NoDb == [matrices |-> [i \in MatrixIds |-> NoRow],
         sources |-> [i \in StoredIds |-> NoRow],
         links |-> {},
         issued |-> {}]

NoSpaces ==
    [q \in SpacePaths |->
        [ws |-> "missing", md |-> NoManifest, ent |-> [n \in LinkNames |-> NoEntry]]]

----------------------------------------------------------------------------
(* State, initial state and operations.                                    *)

Fs == FsState(wsKind, manifest, entries, disk)

\* _resolve_sources (ipc/handler.py): ids without a record are skipped
RECURSIVE resolve_sources(_)
resolve_sources(ids) ==
    IF ids = <<>> THEN <<>>
    ELSE (IF \E r \in Records : r.id = Head(ids) THEN <<CHOOSE r \in Records : r.id = Head(ids)>> ELSE <<>>)
         \o resolve_sources(Tail(ids))

\* the urls the cloner is given
CloneUrls == {r.url : r \in {x \in Records : x.source_type = "remote" /\ x.url # NoUrl}}

\* hash(url) has not been computed yet in this process
NoHash == 0 - 1



NoEnv == [mkdirOk |-> TRUE, writeOk |-> TRUE, gitOk |-> TRUE, clone |-> "ok", linkFail |-> {}]

\* a Candidates entry that is a symlink to the Source's location, which exists
ValidlyLinked(st, src) ==
    /\ st.ws = "dir"
    /\ PathExists(st.disk, src.path)
    /\ \E i \in 1..2 :
          /\ st.ent[Candidates(src)[i]].kind = "symlink"
          /\ Resolve(st.disk, st.ent[Candidates(src)[i]].target) = Resolve(st.disk, src.path)

\* workspace and manifest exist and every resolved Source is validly linked
Healthy(st, srcs) ==
    /\ st.ws = "dir"
    /\ st.md.present
    /\ \A i \in 1..Len(srcs) : ValidlyLinked(st, srcs[i])

\* the summary kept of the operation before the last one
NoPrev == [op |-> "none", arg |-> 0, path |-> NoPath, kind |-> "absent", healthy |-> FALSE,
           outcome |-> "none", ret |-> <<>>, report |-> EmptyReport]

\* the record of the last operation: its name and argument, the state it
\* started from (workspace kind, manifest presence, Source objects, whether
\* the workspace was healthy), the environment it ran in, what it returned,
\* the workspace entries and disk locations it changed, and a summary of the
\* operation before it
Hist(op, arg, path, env, ret, post) ==
    [op |-> op, arg |-> arg, path |-> path,
     kind |-> IF path = NoPath THEN "absent" ELSE disk[path],
     ws |-> wsKind, md |-> manifest.present, srcs |-> sources,
     healthy |-> Healthy(Fs, sources), env |-> env, ret |-> ret,
     changed |-> {n \in LinkNames : entries[n] # post.ent[n]},
     paths |-> {q \in AllPaths : disk[q] # post.disk[q]},
     prev |-> IF <<hist.op, op>> \in
                    {<<"reconcile", "reconcile">>, <<"delete_path", "reconcile">>,
                     <<"link", "link">>, <<"unlink", "link">>, <<"unlink", "unlink">>}
              THEN [op |-> hist.op, arg |-> hist.arg, path |-> hist.path, kind |-> hist.kind,
                    healthy |-> hist.healthy, outcome |-> outcome, ret |-> hist.ret,
                    report |-> report]
              ELSE NoPrev]

InitDisk ==
    [p \in AllPaths |->
        CASE p = PathA -> "dir"
          [] p = PathAlias -> "alias"
          [] p = RepoPath(NameB) -> "dir"
          [] p \in {r.path : r \in Records} -> "git"
          [] OTHER -> "absent"]

\* the state right after the Matrix was created: workspace and MATRIX.md
\* written, the clones of the remote Sources in the shared clone root, no link
Init ==
    \* two Sources that share a sanitized name, an id without a record between
    \* two Sources, a remote Source without URL next to a local one with URL,
    \* and no record at all
    /\ \E ids \in {<<IdA, IdB>>, <<IdB, IdGone, IdA>>, <<SourceC.id, SourceD.id>>, <<IdGone2, IdGone>>} :
          /\ matrix = [id |-> <<"m", "1">>, name |-> <<"M">>, source_ids |-> ids]
          /\ sources = resolve_sources(ids)
    /\ wsKind = "dir"
    /\ manifest = [present |-> TRUE, text |-> generate_matrix_md_content(matrix, sources)]
    /\ entries = [n \in LinkNames |-> NoEntry]
    /\ disk = InitDisk
    /\ urlHash = [u \in CloneUrls |-> NoHash]
    /\ report = EmptyReport
    /\ outcome = "none"
    /\ calls = NoCalls
    /\ hist = [op |-> "init", arg |-> 0, path |-> NoPath, kind |-> "absent",
               ws |-> "missing", md |-> FALSE, srcs |-> sources,
               healthy |-> FALSE, env |-> NoEnv, ret |-> <<>>, changed |-> {},
               paths |-> {}, prev |-> NoPrev]
    /\ drift = 0
    /\ db = NoDb
    /\ spaces = NoSpaces

SetFs(st) ==
    /\ wsKind' = st.ws
    /\ manifest' = st.md
    /\ entries' = st.ent
    /\ disk' = st.disk

Range(q) == {q[i] : i \in 1..Len(q)}

\* environments that differ only in a part the call never consulted are the same
RelevantEnv(st, env, run) ==
    /\ (st.ws # "missing" => env.mkdirOk)
    /\ (run.calls.space = 0 \/ (st.ws = "missing" /\ ~env.mkdirOk) => env.writeOk)
    /\ (run.calls.clone = <<>> => env.gitOk)
    /\ (run.calls.git = <<>> => env.clone = "ok")
    /\ env.linkFail \subseteq Range(run.calls.link)

\* a caller runs MatrixReconciler.reconcile(matrix, sources)
ReconcileReturns(run, env, h) ==
    /\ RelevantEnv(Fs, env, run)
    /\ SetFs(run.st)
    /\ sources' = run.srcs
    /\ report' = run.report
    /\ outcome' = run.outcome
    /\ calls' = run.calls
    /\ urlHash' = [u \in CloneUrls |-> IF u \in run.calls.hashed THEN h[u] ELSE urlHash[u]]
    /\ hist' = Hist("reconcile", 0, NoPath, env, <<>>, run.st)
    /\ UNCHANGED <<matrix, drift, db, spaces>>

Reconcile ==
    \* h: a hash function this process can still turn out to have
    \E env \in Envs(Fs, sources),
       h \in {g \in [CloneUrls -> HashVals] :
                 \A u \in CloneUrls : urlHash[u] # NoHash => g[u] = urlHash[u]} :
        ReconcileReturns(reconcile(Fs, matrix, sources, h, env), env, h)

\* a caller runs SourceLinker.link_source_to_matrix(sources[i], workspace)
LinkReturns(lr, i, mkdirOk, symlinkOk) ==
    /\ SetFs(lr.st)
    /\ outcome' = IF lr.exc = "none" THEN "returned" ELSE lr.exc
    /\ hist' = Hist("link", i, NoPath,
                    [NoEnv EXCEPT !.mkdirOk = mkdirOk,
                                  !.linkFail = IF symlinkOk THEN {} ELSE {sources[i].id}],
                    lr.ret, lr.st)
    /\ calls' = [NoCalls EXCEPT !.link = <<sources[i].id>>]
    /\ report' = EmptyReport
    /\ UNCHANGED <<matrix, sources, urlHash, drift, db, spaces>>

LinkSource ==
    \E i \in 1..Len(sources), mkdirOk, symlinkOk \in BOOLEAN :
        /\ wsKind # "missing" => mkdirOk
        /\ LinkReturns(link_source_to_matrix(Fs, sources[i], mkdirOk, symlinkOk),
                       i, mkdirOk, symlinkOk)

\* a caller runs SourceLinker.unlink_source_from_matrix(sources[i], workspace)
UnlinkReturns(ur, i) ==
    /\ SetFs(ur.st)
    /\ outcome' = IF ur.exc = "none" THEN "returned" ELSE ur.exc
    /\ hist' = Hist("unlink", i, NoPath, NoEnv, ur.ret, ur.st)
    /\ calls' = NoCalls
    /\ report' = EmptyReport
    /\ UNCHANGED <<matrix, sources, urlHash, drift, db, spaces>>

UnlinkSource ==
    \E i \in 1..Len(sources), unlinkOk \in BOOLEAN :
        UnlinkReturns(unlink_source_from_matrix(Fs, sources[i], unlinkOk), i)

\* the handler resolves the Source objects afresh from the persistence layer
ResolveSources ==
    /\ sources # resolve_sources(matrix.source_ids)
    /\ sources' = resolve_sources(matrix.source_ids)
    /\ hist' = Hist("resolve", 0, NoPath, NoEnv, <<>>, Fs)
    /\ outcome' = "returned"
    /\ calls' = NoCalls
    /\ report' = EmptyReport
    /\ UNCHANGED <<wsKind, manifest, entries, disk, matrix, urlHash, drift, db, spaces>>

----------------------------------------------------------------------------
(* Drift: what users and other programs do to the disk between calls.      *)

DriftStep(op, path) ==
    /\ drift < MaxDrift
    /\ drift' = drift + 1
    /\ hist' = Hist(op, 0, path, NoEnv, <<>>, Fs)
    /\ outcome' = "returned"
    /\ calls' = NoCalls
    /\ report' = EmptyReport
    /\ UNCHANGED <<matrix, sources, urlHash, db, spaces>>

\* a source directory, a clone or the alias is removed
DeletePath ==
    \E p \in AllPaths :
        /\ disk[p] # "absent"
        /\ disk' = [disk EXCEPT ![p] = "absent"]
        /\ DriftStep("delete_path", p)
        /\ UNCHANGED <<wsKind, manifest, entries>>

\* a clone loses its .git marker
StripGitMarker ==
    \E p \in AllPaths :
        /\ disk[p] = "git"
        /\ disk' = [disk EXCEPT ![p] = "dir"]
        /\ DriftStep("strip_git", p)
        /\ UNCHANGED <<wsKind, manifest, entries>>

\* the whole workspace folder is removed
DeleteWorkspace ==
    /\ wsKind # "missing"
    /\ wsKind' = "missing"
    /\ manifest' = NoManifest
    /\ entries' = [n \in LinkNames |-> NoEntry]
    /\ DriftStep("delete_workspace", NoPath)
    /\ UNCHANGED disk

\* the workspace folder is replaced by a regular file
WorkspaceBecomesFile ==
    /\ wsKind # "file"
    /\ wsKind' = "file"
    /\ manifest' = NoManifest
    /\ entries' = [n \in LinkNames |-> NoEntry]
    /\ DriftStep("workspace_file", NoPath)
    /\ UNCHANGED disk

\* MATRIX.md is removed
DeleteManifest ==
    /\ wsKind = "dir" /\ manifest.present
    /\ manifest' = NoManifest
    /\ DriftStep("delete_manifest", NoPath)
    /\ UNCHANGED <<wsKind, entries, disk>>

\* an entry of the workspace is removed
DeleteEntry ==
    \E n \in LinkNames :
        /\ wsKind = "dir" /\ entries[n].kind # "none"
        /\ entries' = [entries EXCEPT ![n] = NoEntry]
        /\ DriftStep("delete_entry", NoPath)
        /\ UNCHANGED <<wsKind, manifest, disk>>

\* an unrelated real directory appears in the workspace under a candidate name
CreateEntry ==
    \E n \in LinkNames :
        /\ wsKind = "dir" /\ entries[n].kind = "none"
        /\ \E i \in 1..Len(sources) : n \in {Candidates(sources[i])[1], Candidates(sources[i])[2]}
        /\ entries' = [entries EXCEPT ![n] = DirEntry]
        /\ DriftStep("create_entry", NoPath)
        /\ UNCHANGED <<wsKind, manifest, disk>>

Next ==
    \/ Reconcile
    \/ LinkSource
    \/ UnlinkSource
    \/ ResolveSources
    \/ DeletePath
    \/ StripGitMarker
    \/ DeleteWorkspace
    \/ WorkspaceBecomesFile
    \/ DeleteManifest
    \/ DeleteEntry
    \/ CreateEntry

Spec == Init /\ [][Next]_vars

\* the states the linker can be called in first: the workspace folder there
\* or not, empty or with a real directory under the base name of a Source,
\* and every Source location present or one of them gone
LinkerInit ==
    /\ \E ids \in {<<IdA, IdB>>, <<IdB, IdGone, IdA>>, <<SourceC.id, SourceD.id>>, <<IdGone2, IdGone>>} :
          /\ matrix = [id |-> <<"m", "1">>, name |-> <<"M">>, source_ids |-> ids]
          /\ sources = resolve_sources(ids)
    /\ wsKind \in {"dir", "missing"}
    /\ manifest = IF wsKind = "dir"
                  THEN [present |-> TRUE, text |-> generate_matrix_md_content(matrix, sources)]
                  ELSE NoManifest
    /\ entries \in {[n \in LinkNames |-> NoEntry]}
                   \cup {[n \in LinkNames |-> IF n = Candidates(sources[i])[1] THEN DirEntry
                                               ELSE NoEntry] :
                            i \in IF wsKind = "dir" THEN 1..Len(sources) ELSE {}}
    /\ disk \in {InitDisk}
                \cup {[InitDisk EXCEPT ![sources[i].path] = "absent"] : i \in 1..Len(sources)}
    /\ urlHash = [u \in CloneUrls |-> NoHash]
    /\ report = EmptyReport
    /\ outcome = "none"
    /\ calls = NoCalls
    /\ hist = [op |-> "init", arg |-> 0, path |-> NoPath, kind |-> "absent",
               ws |-> "missing", md |-> FALSE, srcs |-> sources,
               healthy |-> FALSE, env |-> NoEnv, ret |-> <<>>, changed |-> {},
               paths |-> {}, prev |-> NoPrev]
    /\ drift = 0
    /\ db = NoDb
    /\ spaces = NoSpaces

\* the linker on its own: nothing but link and unlink calls on one workspace
LinkerNext ==
    \/ LinkSource
    \/ UnlinkSource

SpecLinker == LinkerInit /\ [][LinkerNext]_vars

----------------------------------------------------------------------------
(* The cloner on its own: callers of RepositoryCloner.clone_repository.    *)

\* the (url, name) arguments of the calls; name <<>> is None
CloneArgs == {<<Url1, <<>>>>, <<Url1, NameB>>, <<SourceD.url, NameB>>}

ClonerUrls == {a[1] : a \in CloneArgs}

\* clone_name = name or self.extract_repo_name(url)
CloneNameOf(url, name) == IF name # <<>> THEN name ELSE extract_repo_name(url)

\* the locations of the shared clone root the calls can touch
ClonerPaths ==
    {RepoPath(CloneNameOf(a[1], a[2])) : a \in CloneArgs}
    \cup {RepoPath(DisambiguatedName(CloneNameOf(a[1], a[2]), h)) :
             a \in CloneArgs, h \in HashVals}

\* the hash functions this process can still turn out to have
ClonerHashChoices ==
    {h \in [ClonerUrls -> HashVals] :
        \A u \in ClonerUrls : urlHash[u] # NoHash => h[u] = urlHash[u]}

NoClonerHist ==
    [op |-> "init", fresh |-> FALSE, url |-> NoUrl, name |-> <<>>, gitOk |-> TRUE, clone |-> "ok",
     target |-> NoPath, ret |-> NoPath, ran |-> FALSE, msg |-> ""]

\* the clone root before the first call: each clone directory is absent, a
\* foreign directory or a clone; no disambiguated directory exists yet
ClonerInit ==
    /\ disk \in {d \in [ClonerPaths -> {"absent", "dir", "git"}] :
                    \A q \in {RepoPath(DisambiguatedName(CloneNameOf(a[1], a[2]), h)) :
                                    a \in CloneArgs, h \in HashVals} : d[q] = "absent"}
    /\ urlHash = [u \in ClonerUrls |-> NoHash]
    /\ outcome = "none"
    /\ calls = NoCalls
    /\ hist = NoClonerHist
    /\ drift = 0
    /\ wsKind = "missing"
    /\ manifest = NoManifest
    /\ entries = [n \in LinkNames |-> NoEntry]
    /\ matrix = [id |-> <<"m", "1">>, name |-> <<"M">>, source_ids |-> <<>>]
    /\ sources = <<>>
    /\ report = EmptyReport
    /\ db = NoDb
    /\ spaces = NoSpaces


CloneReturns(url, name, h, gitOk, cloneOutcome, cr) ==
    /\ disk' = cr.disk
    /\ outcome' = IF cr.exc = "none" THEN "returned" ELSE cr.exc
    /\ calls' = [NoCalls EXCEPT !.git = IF cr.ran THEN <<url>> ELSE <<>>]
    /\ urlHash' = IF HashesUrl(disk, url, name, gitOk)
                  THEN [urlHash EXCEPT ![url] = h[url]] ELSE urlHash
    /\ hist' = [op |-> "clone", fresh |-> TRUE, url |-> url, name |-> name, gitOk |-> gitOk,
                clone |-> cloneOutcome,
                target |-> IF ~gitOk THEN NoPath
                           ELSE IF disk[RepoPath(CloneNameOf(url, name))] = "git"
                                THEN RepoPath(CloneNameOf(url, name))
                                ELSE CloneTarget(disk, url, CloneNameOf(url, name), h),
                ret |-> cr.ret, ran |-> cr.ran, msg |-> cr.msg]
    /\ UNCHANGED drift
    /\ UNCHANGED <<wsKind, manifest, entries, matrix, sources, report, db, spaces>>

\* a caller runs RepositoryCloner.clone_repository(url, name)
CloneRepository ==
    \E a \in CloneArgs, h \in ClonerHashChoices, gitOk \in BOOLEAN,
       cloneOutcome \in {"ok", "failed", "timeout"} :
        /\ (~HashesUrl(disk, a[1], a[2], gitOk) =>
               h = CHOOSE g \in ClonerHashChoices : TRUE)
        /\ (~gitOk \/ disk[RepoPath(CloneNameOf(a[1], a[2]))] = "git" =>
               cloneOutcome = "ok")
        /\ CloneReturns(a[1], a[2], h, gitOk, cloneOutcome,
                        clone_repository(disk, a[1], a[2], h, gitOk, cloneOutcome))

\* the backend process is restarted: hash() of a str is salted per process
NewProcess ==
    /\ \E u \in ClonerUrls : urlHash[u] # NoHash
    /\ urlHash' = [u \in ClonerUrls |-> NoHash]
    /\ hist' = [hist EXCEPT !.fresh = FALSE]
    /\ UNCHANGED <<disk, outcome, calls, drift>>
    /\ UNCHANGED <<wsKind, manifest, entries, matrix, sources, report, db, spaces>>

\* a directory of the clone root is removed, replaced by a foreign directory,
\* or loses or gains its .git marker behind the cloner's back
CloneRootDrift ==
    \E q \in ClonerPaths, k \in {"absent", "dir", "git"} :
        /\ drift < MaxDrift
        /\ disk[q] # k
        /\ disk' = [disk EXCEPT ![q] = k]
        /\ drift' = drift + 1
        /\ hist' = [NoClonerHist EXCEPT !.op = "drift"]
        /\ outcome' = "none"
        /\ calls' = NoCalls
        /\ UNCHANGED urlHash
        /\ UNCHANGED <<wsKind, manifest, entries, matrix, sources, report, db, spaces>>

ClonerNext ==
    \/ CloneRepository
    \/ NewProcess
    \/ CloneRootDrift

SpecCloner == ClonerInit /\ [][ClonerNext]_vars

----------------------------------------------------------------------------
(* The IPC handlers (ipc/handler.py) over the database and the workspaces. *)
(* A Matrix object is [id, name, source_ids, workspace_path]; the two      *)
(* timestamps play no part in what the handlers do to disk and tables.     *)

\* the sequences that list every element of a set once
SeqsOf(S) ==
    {q \in [1..Cardinality(S) -> S] : \A i, j \in 1..Cardinality(S) : q[i] = q[j] => i = j}

\* the ids MatrixEntity.sources yields: the linked Sources that have a row
LinkedIds(d, mid) ==
    {sid \in StoredIds : <<mid, sid>> \in d.links /\ d.sources[sid] # NoRow}

\* MatrixRepository.get with _to_domain
repo_get(d, mid, order) ==
    IF mid \notin MatrixIds \/ d.matrices[mid] = NoRow THEN NoRow
    ELSE [id |-> mid, name |-> d.matrices[mid].name, source_ids |-> order,
          workspace_path |-> d.matrices[mid].workspace_path]

\* MatrixRepository.create
repo_create(d, m) ==
    [d EXCEPT !.matrices[m.id] = [id |-> m.id, name |-> m.name,
                                  workspace_path |-> m.workspace_path],
              !.links = @ \cup {<<m.id, m.source_ids[i]>> : i \in 1..Len(m.source_ids)},
              !.issued = @ \cup {m.id}]

\* MatrixRepository.update: the row, then the junction table re-synced
repo_update(d, m) ==
    IF d.matrices[m.id] = NoRow THEN d
    ELSE [d EXCEPT !.matrices[m.id] = [id |-> m.id, name |-> m.name,
                                       workspace_path |-> m.workspace_path],
                   !.links = {l \in @ : l[1] # m.id}
                             \cup {<<m.id, m.source_ids[i]>> : i \in 1..Len(m.source_ids)}]

\* variant: the Sources of the Matrix are deleted with it
repo_delete_cascade(d, mid) ==
    [d EXCEPT !.matrices[mid] = NoRow,
              !.links = {l \in @ : l[1] # mid},
              !.sources = [sid \in StoredIds |->
                              IF <<mid, sid>> \in d.links THEN NoRow ELSE @[sid]]]

\* MatrixRepository.delete (the Matrix is known to exist)
repo_delete(d, mid) ==
    [d EXCEPT !.matrices[mid] = NoRow, !.links = {l \in @ : l[1] # mid}]

\* SourceRepository.get
source_get(d, sid) == IF sid \in StoredIds THEN d.sources[sid] ELSE NoRow

\* _resolve_sources over the sources table
RECURSIVE resolve_sources_db(_, _)
resolve_sources_db(d, ids) ==
    IF ids = <<>> THEN <<>>
    ELSE (IF source_get(d, Head(ids)) # NoRow THEN <<source_get(d, Head(ids))>> ELSE <<>>)
         \o resolve_sources_db(d, Tail(ids))

\* the workspace folder at a path, with the rest of the disk
SpaceFs(sp, q, dk) == FsState(sp[q].ws, sp[q].md, sp[q].ent, dk)

PutSpace(sp, q, st) == [sp EXCEPT ![q] = [ws |-> st.ws, md |-> st.md, ent |-> st.ent]]

\* what a handler leaves behind: tables, workspaces, disk, the response's
\* success flag, whether an exception escaped, and the folder it worked on
Handled(d, sp, dk, ok, raised, q) ==
    [db |-> d, spaces |-> sp, disk |-> dk, ok |-> ok, raised |-> raised, path |-> q]

\* _handle_matrix_create
handle_matrix_create(d, sp, dk, name, id) ==
    IF Strip(name) = <<>> THEN Handled(d, sp, dk, FALSE, FALSE, NoPath)
    ELSE LET m == [id |-> id, name |-> Strip(name), source_ids |-> <<>>,
                   workspace_path |-> get_matrix_space_path(Strip(name), id)]
             cs == create_matrix_space(SpaceFs(sp, m.workspace_path, dk), m, <<>>, TRUE, TRUE)
         IN  Handled(repo_create(d, m), PutSpace(sp, m.workspace_path, cs.st), dk,
                     cs.exc = "none", FALSE, m.workspace_path)

\* variant: a rename moves the workspace_path along with the name
RenamedWithPath(m, data) ==
    [m EXCEPT !.name = IF data.hasName THEN Strip(data.name) ELSE @,
              !.workspace_path = IF data.hasName
                                 THEN get_matrix_space_path(Strip(data.name), m.id) ELSE @,
              !.source_ids = IF data.hasIds THEN data.ids ELSE @]

\* the assignments of _handle_matrix_update to the loaded Matrix
Renamed(m, data) ==
    [m EXCEPT !.name = IF data.hasName THEN Strip(data.name) ELSE @,
              !.source_ids = IF data.hasIds THEN data.ids ELSE @]

\* _handle_matrix_update; (matrix_id, source_id) is the primary key of
\* MatrixSourceLink, so a list that names a Source twice makes the commit of
\* the session fail, and get_session rolls back and re-raises
handle_matrix_update(d, sp, dk, mid, data, order) ==
    LET m == repo_get(d, mid, order)
        ids == Renamed(m, data).source_ids
    IN  IF m = NoRow \/ (data.hasName /\ Strip(data.name) = <<>>)
        THEN Handled(d, sp, dk, FALSE, FALSE, NoPath)
        ELSE IF Cardinality(Range(ids)) # Len(ids)
             THEN Handled(d, sp, dk, FALSE, TRUE, m.workspace_path)
             ELSE Handled(repo_update(d, Renamed(m, data)), sp, dk, TRUE, FALSE,
                          m.workspace_path)

\* _handle_matrix_delete
handle_matrix_delete(d, sp, dk, mid) ==
    IF repo_get(d, mid, <<>>) = NoRow THEN Handled(d, sp, dk, FALSE, FALSE, NoPath)
    ELSE Handled(repo_delete(d, mid), sp, dk, TRUE, FALSE, d.matrices[mid].workspace_path)

\* the best-effort rewrite of MATRIX.md that ends add-source and remove-source
AfterLinkChange(d, sp, m, st) ==
    Handled(d,
            PutSpace(sp, m.workspace_path,
                     update_matrix_md(st, m, resolve_sources_db(d, m.source_ids), TRUE, TRUE).st),
            st.disk, TRUE, FALSE, m.workspace_path)

\* variant: the Source is linked and MATRIX.md rewritten whether or not the
\* Source is associated already
handle_matrix_add_source_again(d, sp, dk, mid, sid, order) ==
    LET m == repo_get(d, mid, order)
        added == [m EXCEPT !.source_ids = IF sid \in Range(@) THEN @ ELSE Append(@, sid)]
        lr == link_source_to_matrix(SpaceFs(sp, m.workspace_path, dk),
                                    source_get(d, sid), TRUE, TRUE)
    IN  IF m = NoRow \/ source_get(d, sid) = NoRow
        THEN Handled(d, sp, dk, FALSE, FALSE, NoPath)
        ELSE IF lr.exc = "OSError"
             THEN Handled(d, sp, dk, FALSE, TRUE, m.workspace_path)
             ELSE AfterLinkChange(repo_update(d, added), sp, added, lr.st)

\* _handle_matrix_add_source: only SymlinkError is caught around the link
\* call, so an OSError of workspace.mkdir escapes and the session rolls back
handle_matrix_add_source(d, sp, dk, mid, sid, order) ==
    LET m == repo_get(d, mid, order)
        added == [m EXCEPT !.source_ids = Append(@, sid)]
        lr == link_source_to_matrix(SpaceFs(sp, m.workspace_path, dk),
                                    source_get(d, sid), TRUE, TRUE)
    IN  IF m = NoRow \/ source_get(d, sid) = NoRow
        THEN Handled(d, sp, dk, FALSE, FALSE, NoPath)
        ELSE IF sid \in Range(m.source_ids)
             THEN Handled(d, sp, dk, TRUE, FALSE, m.workspace_path)
             ELSE IF lr.exc = "OSError"
                  THEN Handled(d, sp, dk, FALSE, TRUE, m.workspace_path)
                  ELSE AfterLinkChange(repo_update(d, added), sp, added, lr.st)

\* _handle_matrix_remove_source: the unlink is skipped for an unknown Source
handle_matrix_remove_source(d, sp, dk, mid, sid, order) ==
    LET m == repo_get(d, mid, order)
        removed == [m EXCEPT !.source_ids = SelectSeq(@, LAMBDA y : y # sid)]
        fs == SpaceFs(sp, m.workspace_path, dk)
    IN  IF m = NoRow THEN Handled(d, sp, dk, FALSE, FALSE, NoPath)
        ELSE IF sid \notin Range(m.source_ids)
             THEN Handled(d, sp, dk, TRUE, FALSE, m.workspace_path)
             ELSE AfterLinkChange(repo_update(d, removed), sp, removed,
                                  IF source_get(d, sid) = NoRow THEN fs
                                  ELSE unlink_source_from_matrix(fs, source_get(d, sid),
                                                                 TRUE).st)

\* _handle_matrix_reconcile
handle_matrix_reconcile(d, sp, dk, mid, order, h) ==
    LET m == repo_get(d, mid, order)
    IN  IF m = NoRow THEN Handled(d, sp, dk, FALSE, FALSE, NoPath)
        ELSE LET run == reconcile(SpaceFs(sp, m.workspace_path, dk), m,
                                  resolve_sources_db(d, m.source_ids), h, NoEnv)
             IN  Handled(d, PutSpace(sp, m.workspace_path, run.st), run.st.disk,
                         TRUE, FALSE, m.workspace_path)

\* the data of a matrix-update message: "name", "source_ids" or both
UpdateData ==
    {[hasName |-> TRUE, name |-> n, hasIds |-> FALSE, ids |-> <<>>] : n \in MatrixNames}
    \cup {[hasName |-> FALSE, name |-> <<>>, hasIds |-> TRUE, ids |-> q] : q \in UNION {SeqsOf(S) : S \in SUBSET StoredIds}}
    \cup {[hasName |-> TRUE, name |-> <<"M">>, hasIds |-> TRUE, ids |-> <<>>]}
    \cup {[hasName |-> FALSE, name |-> <<>>, hasIds |-> TRUE, ids |-> <<i, i>>] : i \in StoredIds}

\* Sources A and C are stored, no Matrix was created yet
HandlerInit ==
    /\ db = [NoDb EXCEPT !.sources = [i \in StoredIds |->
                                         CHOOSE r \in StoredSources : r.id = i]]
    /\ spaces = NoSpaces
    /\ disk = InitDisk
    /\ urlHash = [u \in CloneUrls |-> NoHash]
    /\ hist = [op |-> "init", mid |-> <<>>, ok |-> FALSE, path |-> NoPath,
               was |-> "missing", ids |-> {}]
    /\ drift = 0
    /\ outcome = "none"
    /\ calls = NoCalls
    /\ wsKind = "missing"
    /\ manifest = NoManifest
    /\ entries = [n \in LinkNames |-> NoEntry]
    /\ matrix = [id |-> <<"m", "1">>, name |-> <<"M">>, source_ids |-> <<>>]
    /\ sources = <<>>
    /\ report = EmptyReport

\* handle_message: the session commits when the handler returns and rolls
\* back when it raises
HandlerReturns(op, mid, r) ==
    /\ db' = r.db
    /\ spaces' = r.spaces
    /\ disk' = r.disk
    /\ hist' = [op |-> op, mid |-> mid, ok |-> r.ok, path |-> r.path,
                was |-> IF r.path \in SpacePaths THEN spaces[r.path].ws ELSE "missing",
                ids |-> LinkedIds(db, mid)]
    /\ UNCHANGED <<drift, wsKind, manifest, entries, matrix, sources, report, outcome,
                   calls, urlHash>>

\* "matrix-create": uuid4 hands out an id no Matrix had before; Matrices are
\* created as "M" or with a blank name, the other name is what they are
\* renamed to
MatrixCreate ==
    \E name \in {<<"M">>, <<" ">>}, id \in MatrixIds \ db.issued :
        HandlerReturns("matrix-create", id, handle_matrix_create(db, spaces, disk, name, id))

\* "matrix-update"
MatrixUpdate ==
    \E mid \in MatrixIds, data \in UpdateData :
        \E order \in SeqsOf(LinkedIds(db, mid)) :
            HandlerReturns("matrix-update", mid,
                           handle_matrix_update(db, spaces, disk, mid, data, order))

\* "matrix-delete"
MatrixDelete ==
    \E mid \in MatrixIds :
        HandlerReturns("matrix-delete", mid,
                       handle_matrix_delete(db, spaces, disk, mid))

\* "matrix-add-source"
MatrixAddSource ==
    \E mid \in MatrixIds, sid \in StoredIds :
        \E order \in SeqsOf(LinkedIds(db, mid)) :
            HandlerReturns("matrix-add-source", mid,
                           handle_matrix_add_source(db, spaces, disk, mid, sid, order))

\* "matrix-remove-source"
MatrixRemoveSource ==
    \E mid \in MatrixIds, sid \in StoredIds :
        \E order \in SeqsOf(LinkedIds(db, mid)) :
            HandlerReturns("matrix-remove-source", mid,
                           handle_matrix_remove_source(db, spaces, disk, mid, sid, order))

\* "matrix-reconcile"
MatrixReconcile ==
    \E mid \in MatrixIds :
        \E order \in SeqsOf(LinkedIds(db, mid)) :
            HandlerReturns("matrix-reconcile", mid,
                           handle_matrix_reconcile(db, spaces, disk, mid, order, urlHash))

\* outside the program: somebody removes a workspace folder
WorkspaceFolderRemoved ==
    \E q \in SpacePaths :
        /\ drift < MaxDrift
        /\ spaces[q].ws = "dir"
        /\ spaces' = [spaces EXCEPT ![q] = NoSpaces[q]]
        /\ drift' = drift + 1
        /\ hist' = [hist EXCEPT !.op = "drift", !.path = q]
        /\ UNCHANGED <<db, disk, wsKind, manifest, entries, matrix, sources, report,
                       outcome, calls, urlHash>>

HandlerNext ==
    \/ MatrixCreate
    \/ MatrixUpdate
    \/ MatrixDelete
    \/ MatrixAddSource
    \/ MatrixRemoveSource
    \/ MatrixReconcile
    \/ WorkspaceFolderRemoved

SpecHandler == HandlerInit /\ [][HandlerNext]_vars

----------------------------------------------------------------------------
(* Two reconcile calls at the same time, one per Matrix; the workspaces    *)
(* are distinct, the Source locations and the clone root are shared.       *)
(* Here matrix, sources, report, outcome and calls hold one value per      *)
(* call, indexed by the Matrix id; outcome is the position of the call.    *)

WorkspaceOf(i) == get_matrix_space_path(matrix[i].name, i)

\* both Matrices were created around one remote Source with URL, whose clone
\* sits under the plain or the disambiguated name and may have been deleted;
\* Matrix i may hold a local Source as well
ConcurrentInit ==
    /\ \E s \in {SourceB, [SourceB EXCEPT !.path = RepoPath(NameB)]}, k \in {"absent", "git"} :
          /\ disk = [q \in AllPaths |-> IF q = s.path THEN k
                                        ELSE IF q = SourceB.path THEN "absent"
                                        ELSE InitDisk[q]]
          /\ sources \in [MatrixIds -> {<<s>>, <<SourceA, s>>}]
    /\ matrix = [i \in MatrixIds |->
                    [id |-> i, name |-> <<"M">>,
                     source_ids |-> [j \in 1..Len(sources[i]) |-> sources[i][j].id]]]
    /\ spaces = [q \in SpacePaths |->
                    IF \E i \in MatrixIds : q = WorkspaceOf(i)
                    THEN LET i == CHOOSE j \in MatrixIds : q = WorkspaceOf(j)
                         IN  [ws |-> "dir",
                              md |-> [present |-> TRUE,
                                      text |-> generate_matrix_md_content(matrix[i], sources[i])],
                              ent |-> [n \in LinkNames |-> NoEntry]]
                    ELSE NoSpaces[q]]
    /\ urlHash \in [CloneUrls -> HashVals]
    /\ report = [i \in MatrixIds |-> EmptyReport]
    /\ outcome = [i \in MatrixIds |-> "idle"]
    /\ calls = [i \in MatrixIds |-> [i |-> 1, target |-> NoPath]]
    /\ hist = [op |-> "init", disk |-> disk, spaces |-> spaces, sources |-> sources]
    /\ drift = 0
    /\ db = NoDb
    /\ wsKind = "missing"
    /\ manifest = NoManifest
    /\ entries = [n \in LinkNames |-> NoEntry]

\* call i has the outcome o for its current Source and moves to the next one
SourceDone(i, o, op) ==
    /\ report' = [report EXCEPT ![i].sources_reconciled =
                                   IF o.raised THEN @ ELSE Append(@, o.result)]
    /\ sources' = [sources EXCEPT ![i][calls[i].i] = o.src]
    /\ spaces' = PutSpace(spaces, WorkspaceOf(i), o.st)
    /\ disk' = o.st.disk
    /\ calls' = [calls EXCEPT ![i] = [i |-> @.i + 1, target |-> NoPath]]
    /\ outcome' = [outcome EXCEPT ![i] = IF o.raised THEN "raised" ELSE "loop"]
    /\ hist' = [hist EXCEPT !.op = op]
    /\ UNCHANGED <<wsKind, manifest, entries, matrix, urlHash, drift, db>>

\* call i moves to position pos without touching anything else
MoveTo(i, pos, target, op) ==
    /\ outcome' = [outcome EXCEPT ![i] = pos]
    /\ calls' = [calls EXCEPT ![i].target = target]
    /\ hist' = [hist EXCEPT !.op = op]
    /\ UNCHANGED <<report, sources, spaces, disk>>
    /\ UNCHANGED <<wsKind, manifest, entries, matrix, urlHash, drift, db>>

\* steps 1 to 3 of reconcile, all within the call's own workspace
BeginReconcile ==
    \E i \in MatrixIds :
        /\ outcome[i] = "idle"
        /\ LET w == WorkspaceStep(SpaceFs(spaces, WorkspaceOf(i), disk),
                                  matrix[i], sources[i], NoEnv)
           IN  /\ report' = [report EXCEPT ![i] =
                                [w.report EXCEPT !.orphaned_source_ids =
                                                    orphaned_source_ids(matrix[i], sources[i])]]
               /\ spaces' = PutSpace(spaces, WorkspaceOf(i), w.st)
        /\ outcome' = [outcome EXCEPT ![i] = "loop"]
        /\ hist' = [hist EXCEPT !.op = "begin"]
        /\ UNCHANGED <<sources, disk, calls>>
        /\ UNCHANGED <<wsKind, manifest, entries, matrix, urlHash, drift, db>>

\* one iteration of step 4 up to the call of the cloner: a Source that needs
\* no clone is reconciled on the spot, for one that does the call enters
\* clone_repository
ReconcileNextSource ==
    \E i \in MatrixIds :
        /\ outcome[i] = "loop"
        /\ calls[i].i <= Len(sources[i])
        /\ LET src == sources[i][calls[i].i]
               st == SpaceFs(spaces, WorkspaceOf(i), disk)
           IN  IF /\ ~is_linked(st, src)
                  /\ src.source_type = "remote"
                  /\ ~PathExists(disk, src.path)
                  /\ src.url # NoUrl
               THEN MoveTo(i, "cloner", NoPath, "enter")
               ELSE SourceDone(i, reconcile_source(st, src, urlHash, NoEnv), "source")

\* clone_repository up to the subprocess: the cache check either returns the
\* existing clone, and the call goes on to link it, or settles the directory
\* to clone into
CloneCacheCheck ==
    \E i \in MatrixIds :
        /\ outcome[i] = "cloner"
        /\ LET src == sources[i][calls[i].i]
           IN  IF disk[RepoPath(src.name)] = "git"
               THEN SourceDone(i, AfterReclone(SpaceFs(spaces, WorkspaceOf(i), disk), src, NoEnv,
                                   CloneResult(disk, "none", RepoPath(src.name), FALSE, "")),
                               "cached")
               ELSE MoveTo(i, "git", CloneTarget(disk, src.url, src.name, urlHash), "target")

\* the `git clone` subprocess and what _reconcile_remote_source does with its
\* result
RunGitClone ==
    \E i \in MatrixIds :
        /\ outcome[i] = "git"
        /\ SourceDone(i, AfterReclone(SpaceFs(spaces, WorkspaceOf(i), disk),
                                      sources[i][calls[i].i], NoEnv,
                                      GitClone(disk, calls[i].target, "ok")),
                      "git")

\* `return report` once the loop is through
EndReconcile ==
    \E i \in MatrixIds :
        /\ outcome[i] = "loop"
        /\ calls[i].i > Len(sources[i])
        /\ MoveTo(i, "returned", NoPath, "return")

ConcurrentNext ==
    \/ BeginReconcile
    \/ ReconcileNextSource
    \/ CloneCacheCheck
    \/ RunGitClone
    \/ EndReconcile

SpecConcurrent == ConcurrentInit /\ [][ConcurrentNext]_vars

----------------------------------------------------------------------------
(* Properties.                                                             *)

Indices == 1..Len(sources)

Entry(i) == report.sources_reconciled[i]

\* the report has exactly one entry per Source handed in, in input order
OnePerSource ==
    /\ Len(report.sources_reconciled) = Len(hist.srcs)
    /\ \A i \in 1..Len(hist.srcs) :
          /\ Entry(i).source_id = hist.srcs[i].id
          /\ Entry(i).source_name = hist.srcs[i].name

\* nothing was recreated or repaired and every Source is reported ok
AllOk ==
    /\ outcome = "returned"
    /\ ~report.workspace_recreated
    /\ ~report.matrix_md_recreated
    /\ ~has_repairs(report)
    /\ OnePerSource
    /\ \A i \in 1..Len(hist.srcs) : Entry(i).status = "ok"

\* C1: reconcile on a healthy Matrix (workspace and manifest exist, every
\* Source validly linked) reports no recreation, no repair and one ok entry
\* per Source in input order; a second reconcile right after it gives the
\* identical report.
C1_IdempotentReconcile ==
    /\ (hist.op = "reconcile" /\ hist.healthy => AllOk)
    /\ (hist.op = "reconcile" /\ hist.prev.op = "reconcile" /\ hist.prev.healthy
           => AllOk /\ report = hist.prev.report)

C1_Witness ==
    /\ hist.op = "reconcile" /\ hist.prev.op = "reconcile" /\ hist.prev.healthy
    /\ Len(sources) = 2
    /\ \E i \in Indices : IsSymlink(Fs, Candidates(sources[i])[2])
    /\ AllOk

\* the environment let every clone and every symlink creation succeed
ToolsWork == hist.env.gitOk /\ hist.env.clone = "ok" /\ hist.env.linkFail = {}

\* C2: from a healthy Matrix, deleting the clone directory of a remote Source
\* that has a URL and then reconciling (clone tool working) invokes the cloner
\* for that Source and reports it repaired; the other Sources are reported as
\* without the deletion, that is ok.
C2_RemoteRepair ==
    \A i \in Indices :
        (/\ hist.op = "reconcile"
         /\ hist.prev.op = "delete_path" /\ hist.prev.healthy
         /\ hist.srcs[i].source_type = "remote" /\ hist.srcs[i].url # NoUrl
         /\ hist.prev.path = hist.srcs[i].path
         /\ ToolsWork)
        => /\ outcome = "returned"
           /\ OnePerSource
           /\ Entry(i).status = "repaired"
           /\ hist.srcs[i].id \in Range(calls.clone)
           /\ \A j \in Indices \ {i} : Entry(j).status = "ok"

\* C3: whenever reconcile gets past the workspace step, a local Source whose
\* path does not exist on disk gets an entry with status skipped and action
\* "local path missing", and reconcile returns normally.
C3_MissingLocalSkipped ==
    \A i \in Indices :
        (/\ hist.op = "reconcile" /\ outcome # "aborted"
         /\ hist.srcs[i].source_type = "local"
         /\ ~PathExists(disk, hist.srcs[i].path))
        => /\ outcome = "returned"
           /\ OnePerSource
           /\ Entry(i).status = "skipped"
           /\ Entry(i).action = <<"local path missing">>

\* C4: whenever reconcile does not abort at workspace creation, the report
\* has exactly one entry per resolved Source, in input order.
C4_OneEntryPerSource ==
    hist.op = "reconcile" /\ outcome # "aborted" => OnePerSource

\* C5: reconcile never raises: every failure of a clone or link step becomes
\* an entry with status error, and only a failed workspace creation ends the
\* run early.
C5_NeverRaises ==
    hist.op = "reconcile" =>
        /\ outcome # "raised"
        /\ (outcome = "aborted" => hist.ws = "missing")
        /\ (outcome = "returned" =>
               /\ OnePerSource
               /\ \A i \in Indices :
                     hist.srcs[i].id \in hist.env.linkFail => Entry(i).status = "error")

\* C6: when the workspace is missing and recreating it fails (mkdir or the
\* manifest write), reconcile returns at once with an empty report (both
\* flags false, no entries, no orphans), does not raise, invokes neither
\* linker nor cloner, and leaves Sources, links and clones untouched.
C6_WorkspaceCreationFailure ==
    (/\ hist.op = "reconcile" /\ hist.ws = "missing"
     /\ ~(hist.env.mkdirOk /\ hist.env.writeOk))
    => /\ outcome = "aborted"
       /\ report = EmptyReport
       /\ ~has_repairs(report)
       /\ calls.link = <<>> /\ calls.clone = <<>> /\ calls.git = <<>>
       /\ sources = hist.srcs
       /\ hist.changed = {} /\ hist.paths = {}
       /\ ~manifest.present

C6_Witness ==
    /\ hist.op = "reconcile" /\ hist.ws = "missing"
    /\ ~hist.env.writeOk
    /\ outcome = "aborted"
    /\ wsKind = "dir"
    /\ matrix.source_ids = <<IdB, IdGone, IdA>>
    /\ \E i \in Indices : PathExists(disk, sources[i].path)

\* C7: in every report of a reconcile that does not abort, orphaned_source_ids
\* is the subsequence of matrix.source_ids (original order) of the ids that
\* have no record among the resolved Sources; with nothing else to repair the
\* call leaves the disk as it was.
C7_OrphanSet ==
    hist.op = "reconcile" /\ outcome # "aborted" =>
        LET Unresolved(id) == \A i \in 1..Len(hist.srcs) : hist.srcs[i].id # id
        IN  /\ report.orphaned_source_ids = SelectSeq(matrix.source_ids, Unresolved)
            /\ (hist.srcs = <<>> /\ hist.ws = "dir" /\ hist.md
                   => /\ hist.changed = {} /\ hist.paths = {}
                      /\ wsKind = "dir" /\ manifest.present)

C7_Witness ==
    /\ hist.op = "reconcile" /\ outcome = "returned"
    /\ matrix.source_ids = <<IdB, IdGone, IdA>>
    /\ report.orphaned_source_ids = <<IdGone>>
    /\ Len(report.sources_reconciled) = 2

C7_WitnessOrder ==
    /\ hist.op = "reconcile" /\ outcome = "returned"
    /\ report.orphaned_source_ids = <<IdGone2, IdGone>>

\* a candidate name holds a symlink whose target exists and resolves to the
\* Source's resolved path
LinkedForReal(st, src) ==
    /\ st.ws # "missing"
    /\ \E k \in 1..2 :
          /\ IsSymlink(st, Candidates(src)[k])
          /\ PathExists(st.disk, st.ent[Candidates(src)[k]].target)
          /\ ResolveLink(st, Candidates(src)[k]) = Resolve(st.disk, src.path)

\* C8: is_linked is true exactly when one of the two candidate names is a
\* symlink whose resolved target equals the resolved source.path; a broken
\* link counts as not linked; a missing workspace gives false.
C8_IsLinkedExact ==
    \A i \in Indices : is_linked(Fs, sources[i]) <=> LinkedForReal(Fs, sources[i])

\* C9: two successive link calls for the same Source (path present, the
\* operating system refusing nothing), the first of which succeeded, both
\* succeed, return the same path, and the second adds no entry.
C9_IdempotentLink ==
    (/\ hist.op = "link" /\ hist.prev.op = "link" /\ hist.prev.arg = hist.arg
     /\ hist.prev.outcome = "returned"
     /\ hist.env.linkFail = {}
     /\ PathExists(disk, sources[hist.arg].path))
    => /\ outcome = "returned"
       /\ hist.ret = hist.prev.ret
       /\ hist.changed = {}

\* the name the claim prescribes on a collision
ExpectedCollisionName(src) ==
    SanitizeLinkName(src.name) \o <<"-">> \o SubSeq(src.id, 1, 8)

\* the base name was occupied, before the last link call, by something that
\* is not a symlink to the Source's path (link never changes an occupied entry)
BaseTakenByOther(src) ==
    /\ Occupied(Fs, SanitizeLinkName(src.name))
    /\ SanitizeLinkName(src.name) \notin hist.changed
    /\ ~(/\ IsSymlink(Fs, SanitizeLinkName(src.name))
         /\ ResolveLink(Fs, SanitizeLinkName(src.name)) = Resolve(disk, src.path))

\* C10: when link finds the base name occupied by something other than a
\* symlink to source.path, the only entry it can create is named
\* sanitize(name) + "-" + first 8 characters of the id, and that is the path
\* it returns.
C10_CollisionNaming ==
    (hist.op = "link" /\ hist.ws = "dir" /\ BaseTakenByOther(sources[hist.arg]))
    => /\ hist.changed \subseteq {ExpectedCollisionName(sources[hist.arg])}
       /\ (outcome = "returned"
              => /\ hist.ret = ExpectedCollisionName(sources[hist.arg])
                 /\ hist.changed = {hist.ret}
                 /\ entries[hist.ret] = SymlinkTo(sources[hist.arg].path))

C10_Witness ==
    /\ hist.op = "link" /\ outcome = "returned"
    /\ sources[hist.arg] = SourceA
    /\ BaseTakenByOther(SourceA)
    /\ hist.ret = <<"r", "_", "p", "-", "a", "b", "c", "1", "2", "3", "4", "5">>
    /\ entries[hist.ret] = SymlinkTo(PathA)

\* the last step was unlink(sources[i], workspace)
UnlinkStepOf(i) == hist'.op = "unlink" /\ hist'.arg = i

\* the workspace entries a step changed
StepChanged == {n \in LinkNames : entries'[n] # entries[n]}

\* C11: unlink(source, ws) removes at most one entry; the removed entry was a
\* symlink under one of the Source's two candidate names; real files and
\* directories of the workspace, the manifest, the workspace folder itself and
\* every source location and clone are left as they were.
C11_UnlinkSafe ==
    [][\A i \in Indices :
          UnlinkStepOf(i) =>
              /\ Cardinality(StepChanged) <= 1
              /\ \A n \in StepChanged :
                    /\ n \in Range(Candidates(sources[i]))
                    /\ wsKind = "dir" /\ entries[n].kind = "symlink"
                    /\ entries'[n] = NoEntry
              /\ \A n \in LinkNames : entries[n].kind = "dir" => entries'[n] = entries[n]
              /\ UNCHANGED <<wsKind, manifest, disk, sources>>]_vars

\* unlink removed the Source's link while a real directory holds its base name
C11_Witness ==
    /\ hist.op = "unlink" /\ outcome = "returned"
    /\ hist.changed = {Candidates(sources[hist.arg])[2]}
    /\ entries[Candidates(sources[hist.arg])[1]] = DirEntry
    /\ PathExists(disk, sources[hist.arg].path)

\* neither candidate name of the Source is a symlink in the workspace
Unlinked(st, src) ==
    ~IsSymlink(st, Candidates(src)[1]) /\ ~IsSymlink(st, Candidates(src)[2])

\* C12: unlink of a Source neither of whose candidate names is a symlink
\* (also when the workspace does not exist) returns without error and changes
\* nothing on disk, so the Source is still unlinked and any further unlink
\* does the same.
C12_UnlinkNoop ==
    [][\A i \in Indices :
          UnlinkStepOf(i) /\ Unlinked(Fs, sources[i]) =>
              /\ outcome' = "returned"
              /\ UNCHANGED <<wsKind, manifest, entries, disk, sources>>
              /\ Unlinked(Fs, sources[i])']_vars

\* two unlinks in a row of a Source whose names hold a real directory and no
\* workspace at all, respectively
C12_Witness ==
    /\ hist.op = "unlink" /\ hist.prev.op = "unlink" /\ hist.prev.arg = hist.arg
    /\ outcome = "returned" /\ hist.changed = {}
    /\ Unlinked(Fs, sources[hist.arg])
    /\ wsKind = "dir" /\ entries[Candidates(sources[hist.arg])[1]] = DirEntry

C12_WitnessNoWorkspace ==
    /\ hist.op = "unlink" /\ outcome = "returned" /\ wsKind = "missing"

\* C16: when the workspace folder is missing and both the mkdir and the write
\* of MATRIX.md succeed, reconcile returns a report with workspace_recreated
\* and matrix_md_recreated set (so has_repairs holds), and on return the
\* folder and a manifest rendered from the matrix and the Sources exist.
C16_WorkspaceRecreated ==
    (/\ hist.op = "reconcile" /\ hist.ws = "missing"
     /\ hist.env.mkdirOk /\ hist.env.writeOk)
    => /\ outcome = "returned"
       /\ report.workspace_recreated /\ report.matrix_md_recreated
       /\ has_repairs(report)
       /\ wsKind = "dir" /\ manifest.present
       /\ manifest.text = generate_matrix_md_content(matrix, hist.srcs)

\* the workspace was recreated and a Source got its link back in the same call
C16_Witness ==
    /\ hist.op = "reconcile" /\ hist.ws = "missing"
    /\ report.workspace_recreated /\ wsKind = "dir" /\ manifest.present
    /\ \E i \in 1..Len(report.sources_reconciled) : Entry(i).status = "repaired"

\* the last step was reconcile(matrix, sources)
ReconcileStep == hist'.op = "reconcile"

\* C17: when the workspace folder exists, reconcile never reports
\* workspace_recreated; a present MATRIX.md is left exactly as it was and
\* matrix_md_recreated stays false; a missing MATRIX.md is, the write
\* succeeding, rendered anew from the matrix and the Sources handed in and
\* matrix_md_recreated is true.
C17_ManifestCheck ==
    [][ReconcileStep /\ wsKind = "dir" =>
          /\ ~report'.workspace_recreated
          /\ (manifest.present =>
                 manifest' = manifest /\ ~report'.matrix_md_recreated)
          /\ (~manifest.present /\ hist'.env.writeOk =>
                 /\ manifest' = [present |-> TRUE,
                                 text |-> generate_matrix_md_content(matrix, sources)]
                 /\ report'.matrix_md_recreated)
          /\ (~manifest.present /\ ~hist'.env.writeOk =>
                 ~manifest'.present /\ ~report'.matrix_md_recreated)]_vars

\* MATRIX.md was regenerated in an existing workspace
C17_Witness ==
    /\ hist.op = "reconcile" /\ hist.ws = "dir" /\ ~hist.md
    /\ manifest.present /\ report.matrix_md_recreated /\ ~report.workspace_recreated

\* a present MATRIX.md that no longer matches the Sources handed in was kept
C17_WitnessStale ==
    /\ hist.op = "reconcile" /\ hist.ws = "dir" /\ hist.md
    /\ manifest.present /\ ~report.matrix_md_recreated
    /\ manifest.text # generate_matrix_md_content(matrix, hist.srcs)

\* some entry of the report has the given status
HasStatus(r, status) ==
    \E i \in 1..Len(r.sources_reconciled) : r.sources_reconciled[i].status = status

\* C18: in every report reconcile produces, and in its to_json form,
\* has_repairs is true exactly when workspace_recreated or matrix_md_recreated
\* is true or some entry has status repaired; the serialized form carries the
\* other fields unchanged.
C18_HasRepairs ==
    hist.op = "reconcile" =>
        /\ has_repairs(report) <=>
              (report.workspace_recreated \/ report.matrix_md_recreated
               \/ HasStatus(report, "repaired"))
        /\ to_json(report).has_repairs <=>
              (report.workspace_recreated \/ report.matrix_md_recreated
               \/ HasStatus(report, "repaired"))
        /\ to_json(report).workspace_recreated = report.workspace_recreated
        /\ to_json(report).matrix_md_recreated = report.matrix_md_recreated
        /\ to_json(report).sources_reconciled = report.sources_reconciled
        /\ to_json(report).orphaned_source_ids = report.orphaned_source_ids

\* a report with an error entry, a skipped entry and no repair
C18_Witness ==
    /\ hist.op = "reconcile" /\ outcome = "returned"
    /\ HasStatus(report, "error") /\ HasStatus(report, "skipped")
    /\ ~to_json(report).has_repairs

\* a report whose only repair is a repaired entry
C18_WitnessRepaired ==
    /\ hist.op = "reconcile" /\ outcome = "returned"
    /\ ~report.workspace_recreated /\ ~report.matrix_md_recreated
    /\ HasStatus(report, "repaired") /\ HasStatus(report, "ok")
    /\ to_json(report).has_repairs

\* the step is a clone_repository call
CloneCall == hist'.op = "clone" /\ hist'.fresh

\* the step is a clone_repository call with git available
CloneStep == CloneCall /\ hist'.gitOk

\* the step repeats the arguments of the call before it
SameCloneAgain == hist.op = "clone" /\ hist'.url = hist.url /\ hist'.name = hist.name

\* C13: when a clone(url, name) call succeeded, the next clone(url, name)
\* call (git available) returns the same path and does not run `git clone`.
C13_CloneCaching ==
    [][CloneStep /\ SameCloneAgain /\ outcome = "returned" =>
          /\ outcome' = "returned"
          /\ hist'.ret = hist.ret
          /\ ~hist'.ran]_vars

\* the directory clone_name names is a foreign directory (no .git marker)
ForeignDirAt(url, name) == disk[RepoPath(CloneNameOf(url, name))] = "dir"

\* C14: when the directory named clone_name exists without a .git marker,
\* the call leaves that directory alone, settles on a disambiguated name that
\* is the same as in the previous such call for the same url and name
\* (whichever process made it), and returns that directory without running
\* `git clone` when it already holds a repository.
C14_CollisionRule ==
    [][CloneStep /\ ForeignDirAt(hist'.url, hist'.name) =>
          /\ disk'[RepoPath(CloneNameOf(hist'.url, hist'.name))] = "dir"
          /\ hist'.target # RepoPath(CloneNameOf(hist'.url, hist'.name))
          /\ (SameCloneAgain /\ hist.gitOk /\ hist.target # RepoPath(CloneNameOf(hist.url, hist.name))
                 => hist'.target = hist.target)
          /\ (disk[hist'.target] = "git" =>
                 outcome' = "returned" /\ hist'.ret = hist'.target /\ ~hist'.ran)]_vars

\* C15: a clone call made while git is not available fails with CloneError
\* "git command not found", runs no `git clone`, takes no hash and leaves the
\* clone root as it was, whether or not a clone for the name is cached.
C15_GitUnavailable ==
    [][CloneCall /\ ~hist'.gitOk =>
          /\ outcome' = "CloneError"
          /\ hist'.msg = "git command not found. Please install git."
          /\ ~hist'.ran /\ calls'.git = <<>>
          /\ hist'.ret = NoPath
          /\ UNCHANGED <<disk, urlHash>>]_vars

\* git was not available although the clone asked for is in the cache
C15_Witness ==
    /\ hist.op = "clone" /\ ~hist.gitOk
    /\ outcome = "CloneError"
    /\ disk[RepoPath(CloneNameOf(hist.url, hist.name))] = "git"

DeleteStep == hist'.op = "matrix-delete" /\ hist'.ok

\* the Matrices other than mid that have a row
OtherMatrices(d, mid) == {o \in MatrixIds \ {mid} : d.matrices[o] # NoRow}

\* C19: a successful matrix-delete leaves every Source row as it was, still
\* fetchable and still associable with every other Matrix; it removes the
\* row of the Matrix and its associations and nothing else, and leaves the
\* workspace folders, their links and the link targets on disk untouched
C19_DeleteKeepsSources ==
    [][DeleteStep =>
          /\ db'.sources = db.sources
          /\ \A sid \in StoredIds : source_get(db', sid) = db.sources[sid]
          /\ db'.matrices = [db.matrices EXCEPT ![hist'.mid] = NoRow]
          /\ db'.links = {l \in db.links : l[1] # hist'.mid}
          /\ spaces' = spaces
          /\ disk' = disk
          /\ \A o \in OtherMatrices(db', hist'.mid), sid \in StoredIds :
                \A order \in SeqsOf(LinkedIds(db', o)) :
                    /\ handle_matrix_add_source(db', spaces', disk', o, sid, order).ok
                    /\ <<o, sid>> \in
                          handle_matrix_add_source(db', spaces', disk', o, sid, order).db.links
      ]_vars

\* a Matrix with a linked Source was deleted while another Matrix exists;
\* its workspace folder still holds the link
C19_Witness ==
    /\ hist.op = "matrix-delete" /\ hist.ok
    /\ hist.ids # {}
    /\ db.matrices[hist.mid] = NoRow
    /\ OtherMatrices(db, hist.mid) # {}
    /\ spaces[hist.path].ws = "dir"
    /\ \E n \in LinkNames : spaces[hist.path].ent[n].kind = "symlink"

\* C20: no step changes the workspace_path of a Matrix that keeps its row,
\* a new row gets the path computed from its name and id, and a reconcile
\* works on the folder at the stored path and on no other folder
C20_WorkspacePathFixed ==
    [][/\ \A mid \in MatrixIds :
            IF db'.matrices[mid] = NoRow THEN TRUE
            ELSE IF db.matrices[mid] = NoRow
                 THEN db'.matrices[mid].workspace_path
                          = get_matrix_space_path(db'.matrices[mid].name, mid)
                 ELSE db'.matrices[mid].workspace_path = db.matrices[mid].workspace_path
       /\ (hist'.op = "matrix-reconcile" /\ hist'.ok =>
              /\ hist'.path = db.matrices[hist'.mid].workspace_path
              /\ \A q \in SpacePaths \ {hist'.path} : spaces'[q] = spaces[q])
      ]_vars

\* a renamed Matrix whose folder was gone was reconciled: the folder is back
\* at the stored path, and nothing is at the path its current name would give
C20_Witness ==
    /\ hist.op = "matrix-reconcile" /\ hist.ok
    /\ hist.was = "missing"
    /\ hist.path = db.matrices[hist.mid].workspace_path
    /\ hist.path # get_matrix_space_path(db.matrices[hist.mid].name, hist.mid)
    /\ spaces[hist.path].ws = "dir"
    /\ spaces[get_matrix_space_path(db.matrices[hist.mid].name, hist.mid)].ws = "missing"

\* a Matrix was renamed and had a Source added after it was created
C20_WitnessRenamed ==
    /\ hist.op = "matrix-add-source" /\ hist.ok
    /\ hist.ids = {}
    /\ LinkedIds(db, hist.mid) # {}
    /\ db.matrices[hist.mid].workspace_path
           # get_matrix_space_path(db.matrices[hist.mid].name, hist.mid)

\* C21: when link returns a path, the path is an entry of the workspace named
\* sanitize(name) or sanitize(name)-<first 8 characters of the id>, it is a
\* symlink resolving to source.path, is_linked holds right afterwards, and
\* the workspace folder exists (it was created when it was absent).
C21_LinkPostcondition ==
    (hist.op = "link" /\ outcome = "returned") =>
        /\ hist.ret \in {SanitizeLinkName(sources[hist.arg].name),
                         SanitizeLinkName(sources[hist.arg].name) \o <<"-">>
                             \o SubSeq(sources[hist.arg].id, 1, 8)}
        /\ wsKind = "dir"
        /\ entries[hist.ret].kind = "symlink"
        /\ Resolve(disk, entries[hist.ret].target) = Resolve(disk, sources[hist.arg].path)
        /\ PathExists(disk, entries[hist.ret].target)
        /\ is_linked(Fs, sources[hist.arg])

\* link returned after creating the workspace folder that was absent
C21_Witness ==
    /\ hist.op = "link" /\ outcome = "returned"
    /\ hist.ws = "missing" /\ wsKind = "dir"
    /\ hist.changed = {hist.ret}

\* link returned the base name, found as a symlink to the path already
C21_WitnessNoop ==
    /\ hist.op = "link" /\ outcome = "returned" /\ hist.changed = {}
    /\ \E i \in Indices : i # hist.arg /\ Candidates(sources[i])[1] = hist.ret

\* the symlinks of the workspace that resolve to the path of a Source
LinksOf(st, src) ==
    {n \in LinkNames : IsSymlink(st, n) /\ ResolveLink(st, n) = Resolve(st.disk, src.path)}

\* C22: after any sequence of link and unlink calls on one workspace each
\* Source has at most one symlink in the workspace resolving to its path,
\* never both the base name and the id-suffixed name.
C22_SingleSymlink ==
    \A i \in Indices :
        /\ Cardinality(LinksOf(Fs, sources[i])) <= 1
        /\ ~(IsSymlink(Fs, Candidates(sources[i])[1])
             /\ ResolveLink(Fs, Candidates(sources[i])[1]) = Resolve(disk, sources[i].path)
             /\ IsSymlink(Fs, Candidates(sources[i])[2]))

----------------------------------------------------------------------------
(* Concurrent reconcile calls.                                             *)

\* the reports and the final state when call `first` runs to its end before
\* call `second` starts, both from the initial state
SerialRun(first, second) ==
    LET a == reconcile(SpaceFs(hist.spaces, WorkspaceOf(first), hist.disk),
                       matrix[first], hist.sources[first], urlHash, NoEnv)
        b == reconcile(SpaceFs(hist.spaces, WorkspaceOf(second), a.st.disk),
                       matrix[second], hist.sources[second], urlHash, NoEnv)
    IN  [report |-> [i \in MatrixIds |-> IF i = first THEN a.report ELSE b.report],
         disk |-> b.st.disk,
         spaces |-> PutSpace(PutSpace(hist.spaces, WorkspaceOf(first), a.st),
                             WorkspaceOf(second), b.st)]

\* C24: once two concurrent reconcile calls on two Matrices have both
\* returned, the two reports, the disk and the two workspaces are those of
\* one of the two orders in which the calls can run one after the other
C24_ConcurrentAsSerial ==
    (\A i \in MatrixIds : outcome[i] = "returned")
    => \E first \in MatrixIds :
          LET s == SerialRun(first, CHOOSE j \in MatrixIds : j # first)
          IN  report = s.report /\ disk = s.disk /\ spaces = s.spaces

----------------------------------------------------------------------------
(* Convergence and what the report says about each Source.                 *)

\* the hash functions the process can still turn out to have
HashesLeft ==
    {g \in [CloneUrls -> HashVals] : \A u \in CloneUrls : urlHash[u] # NoHash => g[u] = urlHash[u]}

\* the call that just returned was a reconcile that reported every Source
\* ok or repaired
EveryEntryFine ==
    /\ hist.op = "reconcile"
    /\ outcome = "returned"
    /\ OnePerSource
    /\ \A i \in Indices : Entry(i).status \in {"ok", "repaired"}

\* the reconcile call the handler would make next, on the disk as it is, with
\* the Sources resolved afresh from the persisted records
FollowUp(h, env) == reconcile(Fs, matrix, resolve_sources(matrix.source_ids), h, env)

\* C25: after a reconcile that reported every Source ok or repaired, a
\* reconcile right after it, given the persisted records and an unchanged
\* disk, reports every Source ok, has no repairs and never calls the cloner
\* (stated for runs in which no tool and no filesystem call fails)
C25_Convergence ==
    EveryEntryFine /\ hist.env = NoEnv
    => \A h \in HashesLeft :
          LET r == FollowUp(h, NoEnv).report.sources_reconciled
          IN  /\ FollowUp(h, NoEnv).outcome = "returned"
              /\ Len(r) = Len(sources)
              /\ \A i \in 1..Len(r) : r[i].status = "ok"
              /\ ~has_repairs(FollowUp(h, NoEnv).report)
              /\ FollowUp(h, NoEnv).calls.clone = <<>>

\* C26: when reconcile returns, every Source it reports ok or repaired has a
\* symlink under one of its two candidate names whose target exists, and no
\* Source whose path is missing is reported ok
C26_ReportedMeansLinked ==
    hist.op = "reconcile" /\ outcome = "returned" /\ OnePerSource
    => \A i \in Indices :
          /\ Entry(i).status \in {"ok", "repaired"}
                => \E k \in 1..2 :
                      /\ entries[Candidates(sources[i])[k]].kind = "symlink"
                      /\ PathExists(disk, entries[Candidates(sources[i])[k]].target)
          /\ Entry(i).status = "ok" => PathExists(disk, sources[i].path)

\* the reconcile call that just ended found the workspace directory missing
FoundNoWorkspace == hist.op = "reconcile" /\ hist.ws = "missing"

C27_WitnessAborted ==
    /\ FoundNoWorkspace
    /\ ~report.workspace_recreated
    /\ outcome = "aborted"
    /\ sources # <<>>

\* C28: a reconcile call that returns has invoked the cloner for exactly
\* those Sources that are remote, were not validly linked, had no directory at
\* their path and have a URL; never for a local Source
C28_ClonerOnlyWhenNeeded ==
    [][ReconcileStep /\ outcome' = "returned"
       => \A i \in Indices :
             /\ sources[i].id \in Range(calls'.clone)
                   <=> /\ sources[i].source_type = "remote"
                       /\ ~ValidlyLinked(Fs, sources[i])
                       /\ ~PathExists(disk, sources[i].path)
                       /\ sources[i].url # NoUrl
             /\ sources[i].source_type = "local" => sources[i].id \notin Range(calls'.clone)]_vars

\* C29: for a remote Source reported repaired, the action reads "recloned
\* and symlink created" exactly when the cloner was invoked for it in this
\* run and "symlink recreated" exactly when it was not
C29_ActionTellsReclone ==
    hist.op = "reconcile" /\ outcome = "returned" /\ OnePerSource
    => \A i \in Indices :
          sources[i].source_type = "remote" /\ Entry(i).status = "repaired"
          => /\ Entry(i).action = <<"recloned and symlink created">>
                   <=> sources[i].id \in Range(calls.clone)
             /\ Entry(i).action = <<"symlink recreated">>
                   <=> sources[i].id \notin Range(calls.clone)

\* the clone that reconcile asks for in the step being taken, for a Source
\* it finds unlinked, remote, with a URL and without its directory
RecloneOf(src) ==
    clone_repository(disk, src.url, src.name,
                     [u \in CloneUrls |-> IF urlHash'[u] = NoHash THEN CHOOSE v \in HashVals : TRUE
                                       ELSE urlHash'[u]],
                     hist'.env.gitOk, hist'.env.clone)

\* C30: when the re-clone of a remote Source with a missing clone path fails
\* with CloneError, the entry of that Source is an error whose action starts
\* with "reclone failed: ", the linker is not called for it, no symlink to its
\* path appears, its path stays as it was, and the Sources after it are
\* reconciled as well
C30_FailedRecloneReported ==
    [][ReconcileStep /\ outcome' = "returned"
       => \A i \in Indices :
             (/\ sources[i].source_type = "remote"
              /\ sources[i].url # NoUrl
              /\ ~is_linked(Fs, sources[i])
              /\ ~PathExists(disk, sources[i].path)
              /\ RecloneOf(sources[i]).exc = "CloneError")
             => /\ Len(report'.sources_reconciled) = Len(sources)
                /\ report'.sources_reconciled[i].status = "error"
                /\ Head(report'.sources_reconciled[i].action) = "reclone failed: "
                /\ sources[i].id \in Range(calls'.clone)
                /\ sources[i].id \notin Range(calls'.link)
                /\ \A n \in LinkNames :
                      entries'[n] # entries[n] => entries'[n].target # sources[i].path
                /\ sources'[i] = sources[i]]_vars

\* a failed re-clone of the first Source, after which the second was linked
C30_Witness ==
    /\ hist.op = "reconcile"
    /\ outcome = "returned"
    /\ Len(sources) = 2
    /\ OnePerSource
    /\ Entry(1).status = "error"
    /\ Head(Entry(1).action) = "reclone failed: "
    /\ Entry(2).status = "repaired"
    /\ sources = hist.srcs

----------------------------------------------------------------------------
(* Linking during reconcile, skipping, and failures that do not abort.     *)

\* how often id occurs in the sequence q
Occurrences(q, id) == Cardinality({k \in 1..Len(q) : q[k] = id})

\* C31: for a Source whose path exists and that is not linked, a reconcile
\* call that returns has called the linker exactly once and not the cloner;
\* its entry is either repaired with action "symlink recreated", and then the
\* Source is linked afterwards, or error with the text of the failure, and
\* then the symlink was refused or both candidate names were taken
C31_LinkAttemptedOnce ==
    [][ReconcileStep /\ outcome' = "returned"
       => \A i \in Indices :
             PathExists(disk, sources[i].path) /\ ~is_linked(Fs, sources[i])
             => /\ Len(report'.sources_reconciled) = Len(sources)
                /\ Occurrences(calls'.link, sources[i].id) = 1
                /\ sources[i].id \notin Range(calls'.clone)
                /\ LET e == report'.sources_reconciled[i]
                   IN  \/ /\ e.status = "repaired"
                          /\ e.action = <<"symlink recreated">>
                          /\ is_linked(FsState(wsKind', manifest', entries', disk'), sources'[i])
                          /\ sources[i].id \notin hist'.env.linkFail
                       \/ /\ e.status = "error"
                          /\ e.action \in {<<"Failed to create symlink">>, <<"mkdir failed">>}
                          /\ ~is_linked(FsState(wsKind', manifest', entries', disk'), sources'[i])
                          /\ \/ sources[i].id \in hist'.env.linkFail
                             \/ wsKind' = "file"
                             \/ \A k \in 1..2 : entries'[Candidates(sources[i])[k]].kind # "none"]_vars

\* a run that linked one Source and was refused the symlink of the other
C31_Witness ==
    /\ hist.op = "reconcile"
    /\ outcome = "returned"
    /\ OnePerSource
    /\ Len(sources) = 2
    /\ \A i \in Indices : PathExists(disk, hist.srcs[i].path)
    /\ hist.paths = {}
    /\ Entry(1).status = "repaired" /\ Entry(1).action = <<"symlink recreated">>
    /\ Entry(2).status = "error" /\ Entry(2).action = <<"Failed to create symlink">>
    /\ calls.link = <<sources[1].id, sources[2].id>>

\* C32: a reconcile call that returns reports a remote Source without URL
\* whose clone path is missing, and which therefore has no valid link, as
\* skipped with action "remote clone missing and no URL", calls neither the
\* cloner nor the linker for it and changes nothing on disk for it
C32_NoUrlSkipped ==
    [][ReconcileStep /\ outcome' = "returned"
       => \A i \in Indices :
             (/\ sources[i].source_type = "remote"
              /\ sources[i].url = NoUrl
              /\ ~PathExists(disk, sources[i].path))
             => /\ Len(report'.sources_reconciled) = Len(sources)
                /\ report'.sources_reconciled[i].status = "skipped"
                /\ report'.sources_reconciled[i].action = <<"remote clone missing and no URL">>
                /\ sources[i].id \notin Range(calls'.clone)
                /\ sources[i].id \notin Range(calls'.link)
                /\ disk'[sources[i].path] = disk[sources[i].path]
                /\ \A n \in LinkNames :
                      entries'[n] # entries[n] => entries'[n].target # sources[i].path]_vars

\* hash(url) as the process has it after the step being taken
StepHash ==
    [u \in CloneUrls |-> IF urlHash'[u] = NoHash THEN CHOOSE v \in HashVals : TRUE
                         ELSE urlHash'[u]]

\* C33: when the workspace directory exists, MATRIX.md is missing and writing
\* it fails, reconcile returns with both flags false and the manifest still
\* missing, lists the orphans and has for every resolved Source the entry it
\* has when the write succeeds; a call ends early with the empty report only
\* when the workspace directory was missing and could not be recreated
C33_ManifestFailureGoesOn ==
    [][ReconcileStep
       => /\ (wsKind = "dir" /\ ~manifest.present /\ ~hist'.env.writeOk)
             => /\ outcome' = "returned"
                /\ ~report'.workspace_recreated
                /\ ~report'.matrix_md_recreated
                /\ ~manifest'.present
                /\ report'.orphaned_source_ids = orphaned_source_ids(matrix, sources)
                /\ Len(report'.sources_reconciled) = Len(sources)
                /\ report'.sources_reconciled =
                      reconcile(Fs, matrix, sources, StepHash,
                                [hist'.env EXCEPT !.writeOk = TRUE]).report.sources_reconciled
          /\ outcome' = "aborted"
             => /\ wsKind = "missing"
                /\ ~hist'.env.mkdirOk \/ ~hist'.env.writeOk
                /\ report' = EmptyReport]_vars

\* the manifest write failed and two Sources were linked all the same, next
\* to an orphaned id
C33_Witness ==
    /\ hist.op = "reconcile"
    /\ hist.ws = "dir" /\ ~hist.md /\ ~hist.env.writeOk
    /\ outcome = "returned"
    /\ ~report.matrix_md_recreated
    /\ report.orphaned_source_ids # <<>>
    /\ Len(sources) = 2
    /\ \A i \in Indices : Entry(i).status = "repaired"

\* C34: in one reconcile call the cloner, the external clone and the linker
\* are each invoked at most once per resolved Source, also when the clone or
\* the link fails, no Source has more than one entry, and the number of
\* collaborator calls is bounded by the number of resolved Sources
C34_NoRetries ==
    hist.op = "reconcile"
    => /\ \A i \in 1..Len(hist.srcs) :
             /\ Occurrences(calls.clone, hist.srcs[i].id) <= 1
             /\ Occurrences(calls.git, hist.srcs[i].id) <= 1
             /\ Occurrences(calls.link, hist.srcs[i].id) <= 1
       /\ Range(calls.clone) \cup Range(calls.git) \cup Range(calls.link)
             \subseteq {hist.srcs[i].id : i \in 1..Len(hist.srcs)}
       /\ Len(report.sources_reconciled) <= Len(hist.srcs)
       /\ calls.space <= 1
       /\ calls.space + Len(calls.clone) + Len(calls.git) + Len(calls.link)
             <= 1 + 2 * Len(hist.srcs)

\* a run in which the clone of one Source failed after git ran and the link
\* of the other was refused: one clone call, one git run, one link call
C34_Witness ==
    /\ hist.op = "reconcile"
    /\ outcome = "returned"
    /\ Len(sources) = 2
    /\ OnePerSource
    /\ \A i \in Indices : Entry(i).status = "error"
    /\ Len(calls.clone) = 1 /\ calls.git = calls.clone
    /\ Len(calls.link) = 1
    /\ Range(calls.link) \cap Range(calls.clone) = {}

----------------------------------------------------------------------------
(* Link and unlink next to the links of other Sources.                     *)

\* C35: when two distinct Sources are both linked in the workspace, unlink of
\* one leaves every symlink of the other in place and the other still linked
C35_UnlinkLeavesOthers ==
    [][\A i \in Indices, j \in Indices :
          (/\ UnlinkStepOf(i)
           /\ j # i
           /\ is_linked(Fs, sources[i])
           /\ is_linked(Fs, sources[j]))
          => /\ is_linked(FsState(wsKind', manifest', entries', disk'), sources[j])
             /\ \A n \in LinkNames :
                   entries[n] = SymlinkTo(sources[j].path) => entries'[n] = entries[n]]_vars

\* C36: in every workspace state reached by link and unlink calls, a Source
\* is not linked once its unlink has returned, and a link call for it right
\* after that succeeds when its path exists and the filesystem accepts the
\* new symlink
C36_UnlinkThenLink ==
    [][\A i \in Indices :
          /\ UnlinkStepOf(i) /\ outcome' = "returned"
                => ~is_linked(FsState(wsKind', manifest', entries', disk'), sources[i])
          /\ (/\ hist.op = "unlink" /\ hist.arg = i /\ outcome = "returned"
              /\ hist'.op = "link" /\ hist'.arg = i
              /\ PathExists(disk, sources[i].path)
              /\ hist'.env = NoEnv)
                => outcome' = "returned"]_vars

\* C37: a link call leaves every entry that was in the workspace as it was,
\* and with it every Source that was linked; it touches neither MATRIX.md nor
\* the Source locations; a call that fails adds no symlink; with the source
\* path missing it raises SymlinkError and does not create the workspace
\* directory; with both candidate names taken and the base name not the
\* Source's own link it raises SymlinkError
C37_LinkKeepsEntries ==
    [][\A i \in Indices :
          hist'.op = "link" /\ hist'.arg = i
          => /\ \A n \in LinkNames : entries[n].kind # "none" => entries'[n] = entries[n]
             /\ \A j \in Indices :
                   is_linked(Fs, sources[j])
                   => is_linked(FsState(wsKind', manifest', entries', disk'), sources[j])
             /\ UNCHANGED <<manifest, disk, sources>>
             /\ wsKind # "missing" => wsKind' = wsKind
             /\ outcome' # "returned" => entries' = entries
             /\ ~PathExists(disk, sources[i].path)
                   => outcome' = "SymlinkError" /\ wsKind' = wsKind
             /\ (/\ PathExists(disk, sources[i].path)
                 /\ \A k \in 1..2 : Occupied(Fs, Candidates(sources[i])[k])
                 /\ entries[Candidates(sources[i])[1]] # SymlinkTo(sources[i].path))
                   => outcome' = "SymlinkError"]_vars

\* a link call that put the Source under its id-suffixed name next to the
\* symlink of another Source, which still holds the base name
C37_Witness ==
    /\ hist.op = "link" /\ outcome = "returned"
    /\ hist.changed = {Candidates(sources[hist.arg])[2]}
    /\ \E j \in Indices :
          /\ j # hist.arg
          /\ entries[Candidates(sources[hist.arg])[1]] = SymlinkTo(sources[j].path)
          /\ is_linked(Fs, sources[j])

\* a link call for a Source whose path is missing, with no workspace folder
C37_WitnessNoPath ==
    /\ hist.op = "link" /\ outcome = "SymlinkError"
    /\ ~PathExists(disk, sources[hist.arg].path)
    /\ hist.ws = "missing" /\ wsKind = "missing"

\* C38: reconcile only adds to the filesystem: every workspace entry (file,
\* directory or symlink, whatever it points to), every location on disk, the
\* workspace folder and MATRIX.md that existed before the call are exactly as
\* they were after it
C38_ReconcileOnlyAdds ==
    [][ReconcileStep
       => /\ \A n \in LinkNames : entries[n].kind # "none" => entries'[n] = entries[n]
          /\ \A q \in AllPaths : disk[q] # "absent" => disk'[q] = disk[q]
          /\ wsKind # "missing" => wsKind' = wsKind
          /\ manifest.present => manifest' = manifest]_vars

\* a reconcile that added a suffixed symlink for a Source whose base name
\* holds something else, which is still there
C38_Witness ==
    /\ hist.op = "reconcile" /\ outcome = "returned"
    /\ \E i \in Indices :
          /\ Candidates(sources[i])[2] \in hist.changed
          /\ Candidates(sources[i])[1] \notin hist.changed
          /\ entries[Candidates(sources[i])[1]].kind # "none"
          /\ entries[Candidates(sources[i])[1]] # SymlinkTo(sources[i].path)

\* a reconcile that cloned a repository next to a directory of the same name
C38_WitnessClone ==
    /\ hist.op = "reconcile" /\ outcome = "returned"
    /\ \E q \in hist.paths : disk[q] = "git"
    /\ \E q \in AllPaths \ hist.paths : disk[q] = "dir"

\* C39: reconcile leaves the records it is given as they were: after the call
\* the Matrix and every field of every Source passed in, its path included,
\* equal their values before it, and nothing persisted has changed
C39_RecordsUntouched ==
    [][ReconcileStep => sources' = sources /\ matrix' = matrix /\ db' = db]_vars

\* the part that does hold: the Matrix, the persisted records and every field
\* of a Source other than its path are as before
C39_OnlyPathRewritten ==
    [][ReconcileStep
       => /\ matrix' = matrix /\ db' = db
          /\ Len(sources') = Len(sources)
          /\ \A i \in Indices : [sources'[i] EXCEPT !.path = sources[i].path] = sources[i]]_vars

====
